---- MODULE Spec2Model ----
(***************************************************************************)
(* State machine of the a2a-agent-selfservice platform: the agent registry *)
(* (in-memory maps or Cosmos DB container), the instance factory, the      *)
(* management API routes and the A2A task routes with their task store.    *)
(*                                                                         *)
(* Request handlers run on one asyncio event loop.  A handler runs without *)
(* interruption until it awaits the agent runtime (Runner.run_async); the  *)
(* registry methods, the Cosmos DB client calls (synchronous) and the      *)
(* in-memory session service never yield to the loop.  Each action below   *)
(* is therefore one uninterrupted piece of a handler.                      *)
(***************************************************************************)
EXTENDS Integers, Sequences, FiniteSets, Bags, TLC

\* Python's None, where a string is expected and where an object is expected.
None == "None"
NoneObj == [name |-> None]

\* ------------------------------------------------------------------ bounds
\* Number of uuid4() agent ids the registries may draw (register_agent calls).
MaxIds == 3
\* Number of tasks create_task may create (uuid4() task ids drawn).
MaxTasks == 2
\* Length a task's message list may have when send_message_to_task is accepted.
MaxMessages == 4
\* Number of runtime exchanges that may be in flight at the same time.
MaxInFlight == 2
\* Number of sessions the invoke route may hold, and of turns on each of them.
MaxTurns == 2
\* Largest page number and largest page size of the paging requests.
MaxPage == 3
MaxPageSize == 2
MaxTools == 3

\* ------------------------------------------------------------------ enums
\* models.AgentStatus
DRAFT == "draft"
ACTIVE == "active"
INACTIVE == "inactive"
DEPLOYING == "deploying"
FAILED == "failed"
AgentStatus == {DRAFT, ACTIVE, INACTIVE, DEPLOYING, FAILED}

\* a2a.models.TaskState
SUBMITTED == "submitted"
WORKING == "working"
INPUT_REQUIRED == "input-required"
COMPLETED == "completed"
CANCELED == "canceled"
TASK_FAILED == "failed"
TaskState == {SUBMITTED, WORKING, INPUT_REQUIRED, COMPLETED, CANCELED, TASK_FAILED}

\* a2a.models.MessageRole
USER == "user"
AGENT == "agent"

\* The two module-level AgentRegistry() objects: api/routes.py and a2a/routes.py.
Registries == {"api", "a2a"}

\* Agent names used by the requests.
Names == {"a", "b"}

\* tools/__init__.py imports calculator, utilities and weather: these names are
\* the keys of _TOOL_REGISTRY (tools/a2a.py is not imported there).
ToolRegistry == {"calculate", "add", "subtract", "multiply", "divide", "convert_units",
                 "get_current_time", "format_json", "text_length", "reverse_text",
                 "get_weather", "get_forecast"}

\* tools.registry.get_tool: the callable registered under the name, or None.
get_tool(name) == IF name \in ToolRegistry THEN name ELSE None

\* ------------------------------------------------------------ definitions
\* models.ToolDefinition
ToolDef(n) == [name |-> n, description |-> "tool", parameters |-> "{}",
               function_code |-> None]

\* models.AgentDefinition values the requests carry.
AgentDef(n, desc, tls, subs) ==
    [name |-> n, display_name |-> "Agent", description |-> desc,
     system_prompt |-> "prompt", model |-> "gpt-4o", tools |-> tls,
     sub_agents |-> subs, metadata |-> "{}"]

DefinitionInputs ==
    { AgentDef("a", "first", <<>>, <<"b">>),
      AgentDef("a", "second", <<ToolDef("add"), ToolDef("call_agent")>>, <<>>),
      AgentDef("b", "first", <<>>, <<>>) }

\* Outcome of one BaseAgentFactory.create_agent call: the Agent is built, or the
\* constructor raises.  pydantic's ValidationError is a ValueError, any other
\* failure (model binding, credentials) is a plain Exception.
FactoryOutcomes == {"ok", "ValueError", "Exception"}

\* str(e) of a factory failure.
ErrorText(fo) == IF fo = "ValueError" THEN "validation error" ELSE "factory error"

\* ------------------------------------------------------------- sequences
\* [F(x) for x in s]
MapSeq(s, F(_)) == [i \in 1..Len(s) |-> F(s[i])]

Reverse(s) == [i \in 1..Len(s) |-> s[Len(s) + 1 - i]]

\* A Python dict keyed by the name field, as the sequence of its values in
\* insertion order.
DictHas(d, k) == \E i \in 1..Len(d) : d[i].name = k
DictGet(d, k) == IF DictHas(d, k) THEN d[CHOOSE i \in 1..Len(d) : d[i].name = k] ELSE NoneObj
\* d[k] = v: an existing key keeps its position, a new key goes last.
DictSet(d, v) ==
    IF DictHas(d, v.name) THEN [i \in 1..Len(d) |-> IF d[i].name = v.name THEN v ELSE d[i]]
    ELSE Append(d, v)
\* del d[k]
DictDel(d, k) == SelectSeq(d, LAMBDA x : x.name # k)
DictKeys(d) == MapSeq(d, LAMBDA x : x.name)

\* Python slice s[start:end] (0-based, end exclusive, negative indices count
\* from the end, out-of-range indices are clamped).
PySliceIndex(i, n) == IF i < 0 THEN (IF i + n < 0 THEN 0 ELSE i + n)
                      ELSE (IF i > n THEN n ELSE i)
PySlice(s, start, end) ==
    LET lo == PySliceIndex(start, Len(s))
        hi == PySliceIndex(end, Len(s))
    IN  IF lo >= hi THEN <<>> ELSE SubSeq(s, lo + 1, hi)

\* A Python dict whose order is never read, as a function on its keys.
MapSet(f, k, v) == [x \in DOMAIN f \cup {k} |-> IF x = k THEN v ELSE f[x]]
MapDel(f, k) == [x \in DOMAIN f \ {k} |-> f[x]]
EmptyMap == [x \in {} |-> None]

\* ---------------------------------------------------------------- storage
\* CosmosDBStorage: the container holds one item per agent name (id = name).
\* The items are kept as a sequence in ascending created_at order: save_agent
\* stamps created_at with the current time, so a saved item is the latest.

\* CosmosDBStorage.save_agent: upsert of a fresh item.
\* pydantic's ToolDefinition.model_dump(): the dict of the four fields.
model_dump(tool) ==
    [name |-> tool.name, description |-> tool.description,
     parameters |-> tool.parameters, function_code |-> tool.function_code]

\* ToolDefinition(**t): the model built from the keys of a stored dict.
ToolDefinition(t) ==
    [name |-> t.name, description |-> t.description,
     parameters |-> t.parameters, function_code |-> t.function_code]

save_agent(c, definition, agent_id, status) ==
    Append(DictDel(c, definition.name),
           [id |-> definition.name, name |-> definition.name, agent_id |-> agent_id,
            display_name |-> definition.display_name,
            description |-> definition.description,
            system_prompt |-> definition.system_prompt,
            model |-> definition.model,
            tools |-> MapSeq(definition.tools, model_dump),
            sub_agents |-> definition.sub_agents,
            metadata |-> definition.metadata,
            status |-> status])

\* CosmosDBStorage.get_agent: the item, or None.
storage_get_agent(c, name) == DictGet(c, name)

\* CosmosDBStorage.update_agent_status: rewrites the status of an existing item
\* in place (created_at is kept); nothing happens when there is no item.
update_agent_status(c, name, status) ==
    IF storage_get_agent(c, name) = NoneObj THEN c
    ELSE DictSet(c, [storage_get_agent(c, name) EXCEPT !.status = status])

\* CosmosDBStorage.delete_agent: (deleted?, container afterwards).
storage_delete_agent(c, name) ==
    IF DictHas(c, name) THEN [ok |-> TRUE, c |-> DictDel(c, name)]
    ELSE [ok |-> FALSE, c |-> c]

\* CosmosDBStorage.list_agents: ORDER BY c.created_at DESC, then the page slice.
storage_list_agents(c, page, page_size) ==
    LET items == Reverse(c)
        start == (page - 1) * page_size
    IN  [items |-> PySlice(items, start, start + page_size), total |-> Len(items)]

\* CosmosDBStorage.to_definition
to_definition_without_tools(item) ==
    [name |-> item.name, display_name |-> item.display_name,
     description |-> item.description, system_prompt |-> item.system_prompt,
     model |-> item.model, tools |-> <<>>, sub_agents |-> item.sub_agents,
     metadata |-> item.metadata]

to_definition(item) ==
    [name |-> item.name, display_name |-> item.display_name,
     description |-> item.description, system_prompt |-> item.system_prompt,
     model |-> item.model, tools |-> MapSeq(item.tools, ToolDefinition),
     sub_agents |-> item.sub_agents, metadata |-> item.metadata]

\* ---------------------------------------------------------------- factory
\* BaseAgentFactory.create_tools: the tools whose name resolves, in order.
create_tools_keeps_unresolved(tool_definitions) ==
    MapSeq(tool_definitions, LAMBDA t : get_tool(t.name))

create_tools(tool_definitions) ==
    MapSeq(SelectSeq(tool_definitions, LAMBDA t : get_tool(t.name) # None),
           LAMBDA t : get_tool(t.name))

\* BaseAgentFactory.create_agent: the ADK Agent built from a definition.
create_agent(definition, sub_agents) ==
    [name |-> definition.name, instruction |-> definition.system_prompt,
     description |-> definition.description,
     tools |-> create_tools(definition.tools), sub_agents |-> sub_agents]

\* Settings.a2a_service_url (default) and the invocation endpoint built on it.
a2a_service_url == "http://localhost:8000"
InvokeEndpoint(name) == a2a_service_url \o "/api/v1/agents/" \o name \o "/invoke"

\* ------------------------------------------------------------------ state
VARIABLES
    storageOn,    \* AgentRegistry._storage is set (cosmos_connection_string configured)
    container,    \* the Cosmos DB container "definitions", shared by both registries
    agents,       \* AgentRegistry._agents of each registry: name -> Agent
    definitions,  \* AgentRegistry._definitions of each registry (dict, insertion order)
    metadata,     \* AgentRegistry._metadata of each registry: name -> dict
    nextId,       \* number of uuid4() agent ids drawn so far
    twin,         \* a second registry, backed by storage, given the same calls
    tasks,        \* a2a/routes.py tasks: task id -> Task
    sessions,     \* a2a/routes.py session_service: session id -> turns submitted
    calls,        \* the A2A handlers suspended in Runner.run_async (a bag)
    nextTask,     \* number of uuid4() task ids drawn so far
    apiSessions,  \* api/routes.py session_service: session id -> turns submitted
    resp          \* the response of the last request handled

registryVars == <<storageOn, container, agents, definitions, metadata, nextId, twin>>
taskVars == <<tasks, sessions, calls, nextTask, apiSessions>>
vars == <<registryVars, taskVars, resp>>

\* The registry-side state as one value, for the methods below.  A method is an
\* operator from such a value to [S: the value afterwards, ret: what it returns,
\* raised: None or the class of the exception it raises, msg: str(exception)].
RegistryState ==
    [storageOn |-> storageOn, container |-> container, agents |-> agents,
     definitions |-> definitions, metadata |-> metadata, nextId |-> nextId]

\* AgentRegistry.__init__: an empty registry, with or without storage.
EmptyRegistry(withStorage) ==
    [storageOn |-> withStorage, container |-> <<>>,
     agents |-> [r \in Registries |-> EmptyMap],
     definitions |-> [r \in Registries |-> <<>>],
     metadata |-> [r \in Registries |-> EmptyMap],
     nextId |-> 0]

Returns(S, ret) == [S |-> S, ret |-> ret, raised |-> None, msg |-> None]
Raises(S, class, msg) == [S |-> S, ret |-> NoneObj, raised |-> class, msg |-> msg]

NotFoundText(agent_name) == "Agent '" \o agent_name \o "' not found"

\* ---------------------------------------------------------------- registry
\* AgentRegistry._get_definition
get_definition(S, r, agent_name) ==
    IF S.storageOn
    THEN (IF storage_get_agent(S.container, agent_name) # NoneObj
          THEN to_definition(storage_get_agent(S.container, agent_name))
          ELSE NoneObj)
    ELSE DictGet(S.definitions[r], agent_name)

\* AgentRegistry._build_response_from_item
build_response_from_item(item) ==
    [id |-> item.agent_id, name |-> item.name, display_name |-> item.display_name,
     description |-> item.description, status |-> item.status,
     a2a_endpoint |-> InvokeEndpoint(item.name), metadata |-> item.metadata]

\* AgentRegistry._build_response
build_response(S, r, agent_name) ==
    IF S.storageOn
    THEN (IF storage_get_agent(S.container, agent_name) = NoneObj
          THEN Raises(S, "ValueError", NotFoundText(agent_name))
          ELSE Returns(S, build_response_from_item(storage_get_agent(S.container, agent_name))))
    ELSE (IF ~DictHas(S.definitions[r], agent_name)
          THEN Raises(S, "ValueError", NotFoundText(agent_name))
          ELSE LET definition == DictGet(S.definitions[r], agent_name)
                   md == S.metadata[r][agent_name]
               IN  Returns(S, [id |-> md.id, name |-> definition.name,
                               display_name |-> definition.display_name,
                               description |-> definition.description,
                               status |-> md.status,
                               a2a_endpoint |-> md.a2a_endpoint,
                               metadata |-> definition.metadata]))

\* deploy_agent's "update status to deploying".
mark_deploying(S, r, agent_name) ==
    IF S.storageOn
    THEN [S EXCEPT !.container = update_agent_status(S.container, agent_name, DEPLOYING)]
    ELSE [S EXCEPT !.metadata[r][agent_name].status = DEPLOYING]

\* The sub-agent instances deploy_agent wires in: those cached at that moment.
ResolveSubAgents_FromDefinitions(S, r, definition) ==
    MapSeq(SelectSeq(definition.sub_agents,
                     LAMBDA n : get_definition(S, r, n) # NoneObj),
           LAMBDA n : create_agent(get_definition(S, r, n), <<>>))

ResolveSubAgents(S, r, definition) ==
    MapSeq(SelectSeq(definition.sub_agents, LAMBDA n : n \in DOMAIN S.agents[r]),
           LAMBDA n : S.agents[r][n])

\* Mutant: the status becomes active but no endpoint is written.
mark_active_without_endpoint(S, r, agent_name) ==
    IF S.storageOn
    THEN [S EXCEPT !.container = update_agent_status(S.container, agent_name, ACTIVE)]
    ELSE [S EXCEPT !.metadata[r][agent_name].status = ACTIVE]

\* deploy_agent's "update status to active".
mark_active(S, r, agent_name) ==
    IF S.storageOn
    THEN [S EXCEPT !.container = update_agent_status(S.container, agent_name, ACTIVE)]
    ELSE [S EXCEPT !.metadata[r][agent_name].status = ACTIVE,
                   !.metadata[r][agent_name].a2a_endpoint = InvokeEndpoint(agent_name)]

\* Mutant: a failed deploy puts the status back to draft.
mark_failed_rolls_back(S, r, agent_name, msg) ==
    IF S.storageOn
    THEN [S EXCEPT !.container = update_agent_status(S.container, agent_name, DRAFT)]
    ELSE [S EXCEPT !.metadata[r][agent_name].status = DRAFT,
                   !.metadata[r][agent_name].error = msg]

\* Mutant: the except branch records the error but not the status.
mark_failed_status_not_written(S, r, agent_name, msg) ==
    IF S.storageOn THEN S
    ELSE [S EXCEPT !.metadata[r][agent_name].error = msg]

\* deploy_agent's except branch.
mark_failed(S, r, agent_name, msg) ==
    IF S.storageOn
    THEN [S EXCEPT !.container = update_agent_status(S.container, agent_name, FAILED)]
    ELSE [S EXCEPT !.metadata[r][agent_name].status = FAILED,
                   !.metadata[r][agent_name].error = msg]

\* AgentRegistry.deploy_agent; fo is the outcome of the factory call it makes.
deploy_agent(S, r, agent_name, fo) ==
    LET definition == get_definition(S, r, agent_name)
        S1 == mark_deploying(S, r, agent_name)
        agent == create_agent(definition, ResolveSubAgents(S1, r, definition))
        S2 == [S1 EXCEPT !.agents[r] = MapSet(S1.agents[r], agent_name, agent)]
        S3 == mark_active(S2, r, agent_name)
        SF == mark_failed(S1, r, agent_name, ErrorText(fo))
    IN  IF definition = NoneObj
        THEN Raises(S, "ValueError", NotFoundText(agent_name))
        ELSE IF fo = "ok" THEN build_response(S3, r, agent_name)
        ELSE Raises(SF, fo, ErrorText(fo))

\* Mutant: the definition is stored as already active.
store_definition_as_active(S, r, definition, agent_id) ==
    IF S.storageOn
    THEN [S EXCEPT !.container = save_agent(S.container, definition, agent_id, ACTIVE)]
    ELSE [S EXCEPT
              !.definitions[r] = DictSet(S.definitions[r], definition),
              !.metadata[r] = MapSet(S.metadata[r], definition.name,
                  [id |-> agent_id, status |-> ACTIVE,
                   a2a_endpoint |-> None, error |-> None])]

\* Mutant: a name that is already stored keeps its record (insert only).
store_definition_insert_only(S, r, definition, agent_id) ==
    IF get_definition(S, r, definition.name) # NoneObj THEN S
    ELSE IF S.storageOn
    THEN [S EXCEPT !.container = save_agent(S.container, definition, agent_id, DRAFT)]
    ELSE [S EXCEPT
              !.definitions[r] = DictSet(S.definitions[r], definition),
              !.metadata[r] = MapSet(S.metadata[r], definition.name,
                  [id |-> agent_id, status |-> DRAFT,
                   a2a_endpoint |-> None, error |-> None])]

\* register_agent's save: to Cosmos DB if available, else to the in-memory maps.
store_definition(S, r, definition, agent_id) ==
    IF S.storageOn
    THEN [S EXCEPT !.container = save_agent(S.container, definition, agent_id, DRAFT)]
    ELSE [S EXCEPT
              !.definitions[r] = DictSet(S.definitions[r], definition),
              !.metadata[r] = MapSet(S.metadata[r], definition.name,
                  [id |-> agent_id, status |-> DRAFT,
                   a2a_endpoint |-> None, error |-> None])]

\* Mutant: a registration whose chained deploy fails is undone.
register_agent_undone_on_failure(S, r, definition, deploy, fo) ==
    LET agent_id == S.nextId + 1
        S1 == store_definition([S EXCEPT !.nextId = agent_id], r, definition, agent_id)
        deployed == deploy_agent(S1, r, definition.name, fo)
    IN  IF deploy
        THEN (IF deployed.raised # None
              THEN Raises([S EXCEPT !.nextId = agent_id], deployed.raised, deployed.msg)
              ELSE build_response(deployed.S, r, definition.name))
        ELSE build_response(S1, r, definition.name)

\* AgentRegistry.register_agent
register_agent(S, r, definition, deploy, fo) ==
    LET agent_id == S.nextId + 1
        S1 == store_definition([S EXCEPT !.nextId = agent_id], r, definition, agent_id)
        deployed == deploy_agent(S1, r, definition.name, fo)
    IN  IF deploy
        THEN (IF deployed.raised # None THEN deployed
              ELSE build_response(deployed.S, r, definition.name))
        ELSE build_response(S1, r, definition.name)

\* Mutant: an unknown name yields an empty result where the method raises.
get_agent_none_for_unknown(S, r, agent_name) ==
    IF build_response(S, r, agent_name).raised # None THEN Returns(S, NoneObj)
    ELSE build_response(S, r, agent_name)

\* AgentRegistry.get_agent
get_agent(S, r, agent_name) == build_response(S, r, agent_name)

\* Mutant: the page number is taken as 0-indexed.
list_agents_zero_indexed(S, r, page, page_size) ==
    IF S.storageOn
    THEN LET got == storage_list_agents(S.container, page + 1, page_size)
         IN  Returns(S, [agents |-> MapSeq(got.items, build_response_from_item),
                         total |-> got.total])
    ELSE LET all == MapSeq(DictKeys(S.definitions[r]),
                           LAMBDA n : build_response(S, r, n).ret)
             start == page * page_size
         IN  Returns(S, [agents |-> PySlice(all, start, start + page_size),
                         total |-> Len(all)])

\* AgentRegistry.list_agents: ret is <<records, total>>.
list_agents(S, r, page, page_size) ==
    IF S.storageOn
    THEN LET got == storage_list_agents(S.container, page, page_size)
         IN  Returns(S, [agents |-> MapSeq(got.items, build_response_from_item),
                         total |-> got.total])
    ELSE LET all == MapSeq(DictKeys(S.definitions[r]),
                           LAMBDA n : build_response(S, r, n).ret)
             start == (page - 1) * page_size
         IN  Returns(S, [agents |-> PySlice(all, start, start + page_size),
                         total |-> Len(all)])

\* Mutant: the definition and the metadata go, the cached instance stays.
delete_agent_keeps_instance(S, r, agent_name) ==
    LET gone == storage_delete_agent(S.container, agent_name)
        S1 == IF S.storageOn THEN [S EXCEPT !.container = gone.c]
              ELSE [S EXCEPT !.definitions[r] = DictDel(S.definitions[r], agent_name),
                             !.metadata[r] = MapDel(S.metadata[r], agent_name)]
    IN  IF S.storageOn /\ ~gone.ok THEN Raises(S, "ValueError", NotFoundText(agent_name))
        ELSE IF ~S.storageOn /\ ~DictHas(S.definitions[r], agent_name)
        THEN Raises(S, "ValueError", NotFoundText(agent_name))
        ELSE Returns(S1, NoneObj)

\* Mutant: an in-memory delete removes the definition but not its metadata.
delete_agent_keeps_metadata(S, r, agent_name) ==
    LET gone == storage_delete_agent(S.container, agent_name)
        S1 == IF S.storageOn THEN [S EXCEPT !.container = gone.c]
              ELSE [S EXCEPT !.definitions[r] = DictDel(S.definitions[r], agent_name)]
        S2 == [S1 EXCEPT !.agents[r] = MapDel(S1.agents[r], agent_name)]
    IN  IF S.storageOn /\ ~gone.ok THEN Raises(S, "ValueError", NotFoundText(agent_name))
        ELSE IF ~S.storageOn /\ ~DictHas(S.definitions[r], agent_name)
        THEN Raises(S, "ValueError", NotFoundText(agent_name))
        ELSE Returns(S2, NoneObj)

\* AgentRegistry.delete_agent
delete_agent(S, r, agent_name) ==
    LET gone == storage_delete_agent(S.container, agent_name)
        S1 == IF S.storageOn THEN [S EXCEPT !.container = gone.c]
              ELSE [S EXCEPT !.definitions[r] = DictDel(S.definitions[r], agent_name),
                             !.metadata[r] = MapDel(S.metadata[r], agent_name)]
        S2 == [S1 EXCEPT !.agents[r] = MapDel(S1.agents[r], agent_name)]
    IN  IF S.storageOn /\ ~gone.ok THEN Raises(S, "ValueError", NotFoundText(agent_name))
        ELSE IF ~S.storageOn /\ ~DictHas(S.definitions[r], agent_name)
        THEN Raises(S, "ValueError", NotFoundText(agent_name))
        ELSE Returns(S2, NoneObj)

\* Mutant: the rebuilt instance is wired to the cached sub-agent instances.
get_agent_instance_wires_sub_agents(S, r, agent_name, fo) ==
    LET item == storage_get_agent(S.container, agent_name)
        rebuilt == [S EXCEPT !.agents[r] =
                       MapSet(S.agents[r], agent_name,
                              create_agent(to_definition(item),
                                           ResolveSubAgents(S, r, to_definition(item))))]
        Lookup(T) == Returns(T, IF agent_name \in DOMAIN T.agents[r]
                                THEN T.agents[r][agent_name] ELSE NoneObj)
    IN  IF agent_name \notin DOMAIN S.agents[r] /\ S.storageOn
        THEN (IF item # NoneObj /\ item.status = ACTIVE
              THEN (IF fo = "ok" THEN Lookup(rebuilt) ELSE Returns(S, NoneObj))
              ELSE Lookup(S))
        ELSE Lookup(S)

\* Mutant: an instance is rebuilt from any stored item, whatever its status.
get_agent_instance_any_status(S, r, agent_name, fo) ==
    LET item == storage_get_agent(S.container, agent_name)
        rebuilt == [S EXCEPT !.agents[r] =
                       MapSet(S.agents[r], agent_name,
                              create_agent(to_definition(item), <<>>))]
        Lookup(T) == Returns(T, IF agent_name \in DOMAIN T.agents[r]
                                THEN T.agents[r][agent_name] ELSE NoneObj)
    IN  IF agent_name \notin DOMAIN S.agents[r] /\ S.storageOn
        THEN (IF item # NoneObj
              THEN (IF fo = "ok" THEN Lookup(rebuilt) ELSE Returns(S, NoneObj))
              ELSE Lookup(S))
        ELSE Lookup(S)

\* Mutant: a failure of the rebuild is raised to the caller.
get_agent_instance_raises(S, r, agent_name, fo) ==
    LET item == storage_get_agent(S.container, agent_name)
        rebuilt == [S EXCEPT !.agents[r] =
                       MapSet(S.agents[r], agent_name,
                              create_agent(to_definition(item), <<>>))]
        Lookup(T) == Returns(T, IF agent_name \in DOMAIN T.agents[r]
                                THEN T.agents[r][agent_name] ELSE NoneObj)
    IN  IF agent_name \notin DOMAIN S.agents[r] /\ S.storageOn
        THEN (IF item # NoneObj /\ item.status = ACTIVE
              THEN (IF fo = "ok" THEN Lookup(rebuilt) ELSE Raises(S, fo, ErrorText(fo)))
              ELSE Lookup(S))
        ELSE Lookup(S)

\* AgentRegistry.get_agent_instance: ret is the Agent or None; fo is the outcome
\* of the factory call made when the instance is rebuilt from storage.
get_agent_instance(S, r, agent_name, fo) ==
    LET item == storage_get_agent(S.container, agent_name)
        rebuilt == [S EXCEPT !.agents[r] =
                       MapSet(S.agents[r], agent_name,
                              create_agent(to_definition(item), <<>>))]
        Lookup(T) == Returns(T, IF agent_name \in DOMAIN T.agents[r]
                                THEN T.agents[r][agent_name] ELSE NoneObj)
    IN  IF agent_name \notin DOMAIN S.agents[r] /\ S.storageOn
        THEN (IF item # NoneObj /\ item.status = ACTIVE
              THEN (IF fo = "ok" THEN Lookup(rebuilt) ELSE Returns(S, NoneObj))
              ELSE Lookup(S))
        ELSE Lookup(S)

\* ------------------------------------------------------- management routes
\* The registry-side variables after a method has run on the registry itself;
\* the twin only moves in the paired calls.
SetRegistry(S) ==
    /\ storageOn' = S.storageOn
    /\ container' = S.container
    /\ agents' = S.agents
    /\ definitions' = S.definitions
    /\ metadata' = S.metadata
    /\ nextId' = S.nextId
    /\ twin' = twin

\* An HTTP response: the route, the agent name of the request, the status code
\* and the body (the detail string of an HTTPException).
Response(op, name, code, body) == [op |-> op, name |-> name, code |-> code, body |-> body]

\* (page, page_size) of the list requests: the route's defaults and small pages.
ListInputs == {<<1, 10>>, <<2, 1>>, <<0, 1>>}

\* api/routes.py create_agent: POST /agents
api_create_agent(definition, deploy, fo) ==
    LET out == register_agent(RegistryState, "api", definition, deploy, fo)
    IN  /\ nextId < MaxIds
        /\ SetRegistry(out.S)
        /\ resp' = IF out.raised = None
                   THEN Response("create_agent", definition.name, 201, out.ret)
                   ELSE IF out.raised = "ValueError"
                   THEN Response("create_agent", definition.name, 400, out.msg)
                   ELSE Response("create_agent", definition.name, 500, out.msg)
        /\ UNCHANGED taskVars

\* api/routes.py list_agents: GET /agents
api_list_agents(page, page_size) ==
    LET out == list_agents(RegistryState, "api", page, page_size)
    IN  /\ SetRegistry(out.S)
        /\ resp' = Response("list_agents", None, 200,
                            [agents |-> out.ret.agents, total |-> out.ret.total,
                             page |-> page, page_size |-> page_size])
        /\ UNCHANGED taskVars

\* api/routes.py get_agent: GET /agents/{agent_name}
api_get_agent(agent_name) ==
    LET out == get_agent(RegistryState, "api", agent_name)
    IN  /\ SetRegistry(out.S)
        /\ resp' = IF out.raised = None
                   THEN Response("get_agent", agent_name, 200, out.ret)
                   ELSE Response("get_agent", agent_name, 404, out.msg)
        /\ UNCHANGED taskVars

\* Mutant: every failure of a deploy is answered 500.
deploy_error_code_always_500(raised) == 500

\* The except clauses of the deploy route: ValueError is 404, the rest 500.
deploy_error_code(raised) == IF raised = "ValueError" THEN 404 ELSE 500

\* api/routes.py deploy_agent: POST /agents/{agent_name}/deploy
api_deploy_agent(agent_name, fo) ==
    LET out == deploy_agent(RegistryState, "api", agent_name, fo)
    IN  /\ SetRegistry(out.S)
        /\ resp' = IF out.raised = None
                   THEN Response("deploy_agent", agent_name, 200, out.ret)
                   ELSE Response("deploy_agent", agent_name,
                                 deploy_error_code(out.raised), out.msg)
        /\ UNCHANGED taskVars

\* api/routes.py delete_agent: DELETE /agents/{agent_name}
api_delete_agent(agent_name) ==
    LET out == delete_agent(RegistryState, "api", agent_name)
    IN  /\ SetRegistry(out.S)
        /\ resp' = IF out.raised = None
                   THEN Response("delete_agent", agent_name, 204, None)
                   ELSE Response("delete_agent", agent_name, 404, out.msg)
        /\ UNCHANGED taskVars


\* --------------------------------------------------------------- A2A tasks
\* a2a.models.Part and a2a.models.Message
TextPart(text) == [type |-> "text", text |-> text, data |-> None, mime_type |-> None]
DataPart(data, mime) == [type |-> "file", text |-> None, data |-> data, mime_type |-> mime]
Message(role, parts) == [role |-> role, parts |-> parts]

\* The user messages the requests carry: text parts around a binary part.
UserMessages == { Message(USER, <<TextPart("h"), DataPart("AAAA", "image/png"), TextPart("i")>>) }

\* Session ids a request may carry; None and the empty string let the handler
\* draw one.
SessionIdInputs == {None, "", "s1"}

\* str(uuid4()) of the n-th task and of the session drawn for it.
TaskId(n) == "task-" \o ToString(n)
FreshSessionId(n) == "session-" \o ToString(n)

RECURSIVE JoinText(_)
\* user_text / response_text: the concatenation of the truthy text values.
JoinText(texts) ==
    IF texts = <<>> THEN ""
    ELSE (IF Head(texts) # None THEN Head(texts) ELSE "") \o JoinText(Tail(texts))

\* The text the handlers extract from a request message.
ExtractUserText(message) == JoinText(MapSeq(message.parts, LAMBDA part : part.text))

\* Runtime events: an event carries content with parts (a part's text may be
\* None), or no content and a flat text.
ContentEvent(texts) == [content |-> TRUE, parts |-> texts, text |-> None]
TextEvent(text) == [content |-> FALSE, parts |-> <<>>, text |-> text]

\* Mutant: only the text of the last event is kept.
AggregateEvents_LastEventOnly(events) ==
    IF events = <<>> THEN ""
    ELSE LET last == events[Len(events)]
         IN  IF last.content THEN JoinText(last.parts)
             ELSE IF last.text # None THEN last.text ELSE ""

RECURSIVE AggregateEvents(_)
\* response_text after the async for loop over the events.
AggregateEvents(events) ==
    IF events = <<>> THEN ""
    ELSE (IF Head(events).content THEN JoinText(Head(events).parts)
          ELSE IF Head(events).text # None THEN Head(events).text
          ELSE "")
         \o AggregateEvents(Tail(events))

\* What one runtime exchange yields: the events of a reply, or an exception.
RuntimeOutcomes ==
    { [raised |-> FALSE, events |-> <<ContentEvent(<<"hel", None>>), ContentEvent(<<"lo">>)>>],
      [raised |-> FALSE, events |-> <<TextEvent("hello")>>],
      [raised |-> TRUE, events |-> <<>>] }

RuntimeErrorText == "runtime error"
SessionExistsText == "session already exists"
SessionMissingText == "session not found"

\* InMemorySessionService.create_session with an id that already exists, by
\* the ADK release in use: AlreadyExistsError, or a fresh session in its place.
DuplicateSessionOutcomes == {"raise", "replace"}

\* a2a.models.Task(...)
Task(id, session_id, state, messages, md) ==
    [id |-> id, session_id |-> session_id, state |-> state, messages |-> messages,
     artifacts |-> <<>>, metadata |-> md]

\* Mutant: the state becomes failed but the error string is not kept.
FailTask_ErrorNotRecorded(task, msg) == [task EXCEPT !.state = TASK_FAILED]

\* Mutant: the error string is kept but the state is left as it was.
FailTask_StateKept(task, msg) ==
    [task EXCEPT !.metadata = MapSet(task.metadata, "error", msg)]

\* The except branch of both handlers.
FailTask(task, msg) ==
    [task EXCEPT !.state = TASK_FAILED, !.metadata = MapSet(task.metadata, "error", msg)]

\* Mutant: the reply is appended but the state is left as it was.
CompleteTask_StateNotSet(task, events) ==
    [task EXCEPT !.messages = Append(task.messages,
                                     Message(AGENT, <<TextPart(AggregateEvents(events))>>))]

\* Mutant: the agent reply replaces the messages the task held.
CompleteTask_ReplacesMessages(task, events) ==
    [task EXCEPT !.messages = <<Message(AGENT, <<TextPart(AggregateEvents(events))>>)>>,
                 !.state = COMPLETED]

\* The end of the try block of both handlers.
CompleteTask(task, events) ==
    [task EXCEPT !.messages = Append(task.messages,
                                     Message(AGENT, <<TextPart(AggregateEvents(events))>>)),
                 !.state = COMPLETED]

TaskNotFoundText(task_id) == "Task '" \o task_id \o "' not found"
NotDeployedText(agent_name) == "Agent '" \o agent_name \o "' not found or not deployed"

\* The detail f"Cannot send message to task in state '{task.state}'".  The
\* state is a member of TaskState(str, Enum), and what an f-string shows of it
\* depends on the interpreter: the value ("canceled") up to Python 3.10, the
\* member ("TaskState.CANCELED") from Python 3.11 on.  Both texts are given.
InvalidStateText(state) ==
    LET member == CASE state = SUBMITTED -> "SUBMITTED"
                    [] state = WORKING -> "WORKING"
                    [] state = INPUT_REQUIRED -> "INPUT_REQUIRED"
                    [] state = COMPLETED -> "COMPLETED"
                    [] state = CANCELED -> "CANCELED"
                    [] state = TASK_FAILED -> "FAILED"
    IN  { "Cannot send message to task in state '" \o shown \o "'" :
            shown \in {state, "TaskState." \o member} }

\* a2a/routes.py _get_base_url, for app_env other than production.
base_url == "https://a2a-selfservice-staging.victorioussea-2cc9367e.eastus.azurecontainerapps.io"

\* The skills get_agent_card builds from the definition's tools; the tools of the
\* requests declare no parameter properties.
Skills(definition) ==
    IF definition = NoneObj THEN <<>>
    ELSE MapSeq(definition.tools,
                LAMBDA tool : [id |-> tool.name, name |-> tool.name,
                               description |-> tool.description, parameters |-> <<>>])

\* a2a/routes.py get_agent_card: registry.get_agent raises ValueError for an
\* unknown name, which the handler does not catch (HTTP 500).
a2a_get_agent_card(agent_name) ==
    LET out == get_agent(RegistryState, "a2a", agent_name)
        definition == get_definition(RegistryState, "a2a", agent_name)
    IN  /\ resp' = IF out.raised # None
                   THEN Response("get_agent_card", agent_name, 500, out.msg)
                   ELSE Response("get_agent_card", agent_name, 200,
                            [name |-> agent_name,
                             description |-> out.ret.description,
                             url |-> base_url \o "/a2a/agents/" \o agent_name,
                             version |-> "1.0.0",
                             skills |-> Skills(definition),
                             protocol_version |-> "0.1",
                             metadata |-> [display_name |-> out.ret.display_name,
                                           status |-> out.ret.status]])
        /\ UNCHANGED <<registryVars, taskVars>>

InFlight == BagCardinality(calls)

\* a2a/routes.py create_task, up to its first suspension in runner.run_async.
a2a_create_task(agent_name, message, session_id, fo, dup) ==
    LET got == get_agent_instance(RegistryState, "a2a", agent_name, fo)
        task_id == TaskId(nextTask + 1)
        sid == IF session_id \notin {None, ""} THEN session_id
               ELSE FreshSessionId(nextTask + 1)
        task == Task(task_id, sid, WORKING, <<message>>, EmptyMap)
    IN  /\ SetRegistry(got.S)
        /\ IF got.ret = NoneObj
           THEN /\ resp' = Response("create_task", agent_name, 404, NotDeployedText(agent_name))
                /\ UNCHANGED taskVars
           ELSE /\ nextTask < MaxTasks
                /\ InFlight < MaxInFlight
                /\ nextTask' = nextTask + 1
                /\ IF sid \in DOMAIN sessions /\ dup = "raise"
                   THEN /\ tasks' = MapSet(tasks, task_id, FailTask(task, SessionExistsText))
                        /\ resp' = Response("create_task", agent_name, 200, tasks'[task_id])
                        /\ UNCHANGED <<sessions, calls, apiSessions>>
                   ELSE /\ sessions' = MapSet(sessions, sid, 1)
                        /\ calls' = calls (+) SetToBag({[op |-> "create_task",
                                                         agent_name |-> agent_name,
                                                         agent |-> got.ret,
                                                         task_id |-> task_id,
                                                         task |-> task]})
                        /\ UNCHANGED <<tasks, resp, apiSessions>>

\* create_task from the end of the exchange to its return.
a2a_create_task_resume(call, outcome) ==
    LET task == IF outcome.raised THEN FailTask(call.task, RuntimeErrorText)
                ELSE CompleteTask(call.task, outcome.events)
    IN  /\ BagIn(call, calls)
        /\ call.op = "create_task"
        /\ calls' = calls (-) SetToBag({call})
        /\ tasks' = MapSet(tasks, call.task_id, task)
        /\ resp' = Response("create_task", call.agent_name, 200, task)
        /\ UNCHANGED <<registryVars, sessions, nextTask, apiSessions>>

\* Mutant: a task is only shown under the name of an agent that has a definition.
a2a_get_task_checks_agent(agent_name, task_id) ==
    /\ resp' = IF task_id \notin DOMAIN tasks
                  \/ get_definition(RegistryState, "a2a", agent_name) = NoneObj
               THEN Response("get_task", agent_name, 404, TaskNotFoundText(task_id))
               ELSE Response("get_task", agent_name, 200, tasks[task_id])
    /\ UNCHANGED <<registryVars, taskVars>>

\* a2a/routes.py get_task
a2a_get_task(agent_name, task_id) ==
    /\ resp' = IF task_id \notin DOMAIN tasks
               THEN Response("get_task", agent_name, 404, TaskNotFoundText(task_id))
               ELSE Response("get_task", agent_name, 200, tasks[task_id])
    /\ UNCHANGED <<registryVars, taskVars>>

\* Mutant: only a canceled task refuses further messages.
RejectedStates_OnlyCanceled == {CANCELED}

\* The task states in which send_message_to_task refuses the message.
RejectedStates == {CANCELED, TASK_FAILED}

\* Mutant: the message is appended but the state is left as it was.
AcceptMessage_StateKept(task, message) ==
    [task EXCEPT !.messages = Append(task.messages, message)]

\* send_message_to_task's "add user message": append, then state working.
AcceptMessage(task, message) ==
    [task EXCEPT !.messages = Append(task.messages, message), !.state = WORKING]

\* Mutant: the agent instance is looked up before the state of the task is
\* checked.
a2a_send_message_to_task_agent_first(agent_name, task_id, message, fo) ==
    LET got == get_agent_instance(RegistryState, "a2a", agent_name, fo)
    IN  IF task_id \notin DOMAIN tasks
        THEN /\ resp' = Response("send_message_to_task", agent_name, 404,
                                 TaskNotFoundText(task_id))
             /\ UNCHANGED <<registryVars, taskVars>>
        ELSE IF got.ret = NoneObj
        THEN /\ SetRegistry(got.S)
             /\ resp' = Response("send_message_to_task", agent_name, 404,
                                 NotDeployedText(agent_name))
             /\ UNCHANGED taskVars
        ELSE IF tasks[task_id].state \in RejectedStates
        THEN /\ \E detail \in InvalidStateText(tasks[task_id].state) :
                   resp' = Response("send_message_to_task", agent_name, 400, detail)
             /\ UNCHANGED <<registryVars, taskVars>>
        ELSE /\ SetRegistry(got.S)
             /\ Len(tasks[task_id].messages) < MaxMessages
             /\ InFlight < MaxInFlight
             /\ tasks' = [tasks EXCEPT
                    ![task_id] = AcceptMessage(tasks[task_id], message)]
             /\ sessions' = IF tasks[task_id].session_id \in DOMAIN sessions
                            THEN [sessions EXCEPT ![tasks[task_id].session_id] = @ + 1]
                            ELSE sessions
             /\ calls' = calls (+) SetToBag({[op |-> "send_message_to_task",
                                              agent_name |-> agent_name,
                                              agent |-> got.ret,
                                              task_id |-> task_id,
                                              task |-> NoneObj]})
             /\ UNCHANGED <<nextTask, resp, apiSessions>>

\* a2a/routes.py send_message_to_task, up to its suspension in runner.run_async.
a2a_send_message_to_task(agent_name, task_id, message, fo) ==
    LET got == get_agent_instance(RegistryState, "a2a", agent_name, fo)
    IN  IF task_id \notin DOMAIN tasks
        THEN /\ resp' = Response("send_message_to_task", agent_name, 404,
                                 TaskNotFoundText(task_id))
             /\ UNCHANGED <<registryVars, taskVars>>
        ELSE IF tasks[task_id].state \in RejectedStates
        THEN /\ \E detail \in InvalidStateText(tasks[task_id].state) :
                   resp' = Response("send_message_to_task", agent_name, 400, detail)
             /\ UNCHANGED <<registryVars, taskVars>>
        ELSE /\ SetRegistry(got.S)
             /\ IF got.ret = NoneObj
                THEN /\ resp' = Response("send_message_to_task", agent_name, 404,
                                         NotDeployedText(agent_name))
                     /\ UNCHANGED taskVars
                ELSE /\ Len(tasks[task_id].messages) < MaxMessages
                     /\ InFlight < MaxInFlight
                     /\ tasks' = [tasks EXCEPT
                            ![task_id] = AcceptMessage(tasks[task_id], message)]
                     /\ sessions' = IF tasks[task_id].session_id \in DOMAIN sessions
                                    THEN [sessions EXCEPT ![tasks[task_id].session_id] = @ + 1]
                                    ELSE sessions
                     /\ calls' = calls (+) SetToBag({[op |-> "send_message_to_task",
                                                      agent_name |-> agent_name,
                                                      agent |-> got.ret,
                                                      task_id |-> task_id,
                                                      task |-> NoneObj]})
                     /\ UNCHANGED <<nextTask, resp, apiSessions>>

\* send_message_to_task from the end of the exchange to its return; the handler
\* holds the Task object of the task map and writes to it in place.
a2a_send_message_to_task_resume(call, outcome) ==
    LET task == tasks[call.task_id]
        after == IF task.session_id \notin DOMAIN sessions
                 THEN FailTask(task, SessionMissingText)
                 ELSE IF outcome.raised THEN FailTask(task, RuntimeErrorText)
                 ELSE CompleteTask(task, outcome.events)
    IN  /\ BagIn(call, calls)
        /\ call.op = "send_message_to_task"
        /\ calls' = calls (-) SetToBag({call})
        /\ tasks' = [tasks EXCEPT ![call.task_id] = after]
        /\ resp' = Response("send_message_to_task", call.agent_name, 200, after)
        /\ UNCHANGED <<registryVars, sessions, nextTask, apiSessions>>

\* Mutant: a task that has already resolved is returned as it is.
SetCanceled_UnlessResolved(task) ==
    IF task.state \in {COMPLETED, TASK_FAILED} THEN task ELSE [task EXCEPT !.state = CANCELED]

\* Mutant: a cancel also forgets the session of the task.
SetCanceled_DropsSession(task) == [task EXCEPT !.state = CANCELED, !.session_id = None]

\* task.state = TaskState.CANCELED
SetCanceled(task) == [task EXCEPT !.state = CANCELED]

\* Mutant: a cancel also drops the exchanges in flight on the task.
a2a_cancel_task_stops_exchange(agent_name, task_id) ==
    IF task_id \notin DOMAIN tasks
    THEN /\ resp' = Response("cancel_task", agent_name, 404, TaskNotFoundText(task_id))
         /\ UNCHANGED <<registryVars, taskVars>>
    ELSE /\ tasks' = [tasks EXCEPT ![task_id] = SetCanceled(tasks[task_id])]
         /\ calls' = [call \in {c \in DOMAIN calls : c.task_id # task_id} |-> calls[call]]
         /\ resp' = Response("cancel_task", agent_name, 200, tasks'[task_id])
         /\ UNCHANGED <<registryVars, sessions, nextTask, apiSessions>>

\* a2a/routes.py cancel_task
a2a_cancel_task(agent_name, task_id) ==
    IF task_id \notin DOMAIN tasks
    THEN /\ resp' = Response("cancel_task", agent_name, 404, TaskNotFoundText(task_id))
         /\ UNCHANGED <<registryVars, taskVars>>
    ELSE /\ tasks' = [tasks EXCEPT ![task_id] = SetCanceled(tasks[task_id])]
         /\ resp' = Response("cancel_task", agent_name, 200, tasks'[task_id])
         /\ UNCHANGED <<registryVars, sessions, calls, nextTask, apiSessions>>

\* Task ids a request may name: those drawn so far and one that never exists.
TaskIdInputs == {TaskId(n) : n \in 1..MaxTasks} \cup {"task-unknown"}

\* ------------------------------------------------------------ invocation
\* str(uuid4()) of a session the invoke route's session service draws.
FreshApiSessionId(held) == "api-session-" \o ToString(Cardinality(DOMAIN held) + 1)

\* invoke_agent's "create or get session": (session id, service afterwards).
\* get_session finds the session of a given id; create_session is called only
\* when there is none, or when the request carries no id (`if
\* request.session_id:` is false of None and of the empty string).
GetOrCreateSession(held, session_id) ==
    IF session_id \notin {None, ""} /\ session_id \in DOMAIN held
    THEN [id |-> session_id, held |-> held]
    ELSE IF session_id \notin {None, ""}
    THEN [id |-> session_id, held |-> MapSet(held, session_id, 0)]
    ELSE [id |-> FreshApiSessionId(held), held |-> MapSet(held, FreshApiSessionId(held), 0)]

\* api/routes.py invoke_agent, up to its suspension in runner.run_async.
api_invoke_agent(agent_name, session_id, fo) ==
    LET got == get_agent_instance(RegistryState, "api", agent_name, fo)
        session == GetOrCreateSession(apiSessions, session_id)
    IN  /\ SetRegistry(got.S)
        /\ IF got.ret = NoneObj
           THEN /\ resp' = Response("invoke_agent", agent_name, 404,
                                    NotDeployedText(agent_name))
                /\ UNCHANGED taskVars
           ELSE /\ InFlight < MaxInFlight
                /\ Cardinality(DOMAIN session.held) <= MaxTurns
                /\ session.held[session.id] < MaxTurns
                /\ apiSessions' = [session.held EXCEPT ![session.id] = @ + 1]
                /\ calls' = calls (+) SetToBag({[op |-> "invoke_agent",
                                                 agent_name |-> agent_name,
                                                 agent |-> got.ret,
                                                 task_id |-> None,
                                                 task |-> NoneObj,
                                                 session_id |-> session.id]})
                /\ UNCHANGED <<tasks, sessions, nextTask, resp>>

\* invoke_agent from the end of the exchange to its return.  The first event
\* the runtime yields reaches logger.debug("ADK event received", ..., event=...),
\* whose keyword collides with the logger method's positional parameter event:
\* the TypeError leaves the loop at once, before the runtime can raise later
\* in the exchange, and is answered 500.  An exchange that raises before any
\* event is answered 500 with the runtime's error, and only one that yields no
\* event and does not raise returns, with the text "".
api_invoke_agent_resume(call, outcome) ==
    /\ BagIn(call, calls)
    /\ call.op = "invoke_agent"
    /\ calls' = calls (-) SetToBag({call})
    /\ resp' = IF outcome.events # <<>>
               THEN Response("invoke_agent", call.agent_name, 500,
                             "BoundLogger.debug() got multiple values for argument 'event'")
               ELSE IF outcome.raised
               THEN Response("invoke_agent", call.agent_name, 500, RuntimeErrorText)
               ELSE Response("invoke_agent", call.agent_name, 200,
                             [response |-> AggregateEvents(outcome.events),
                              session_id |-> call.session_id,
                              agent_name |-> call.agent_name])
    /\ UNCHANGED <<registryVars, tasks, sessions, nextTask, apiSessions>>

\* ------------------------------------------------------------------- spec
\* Both registries are constructed empty; the container of a fresh deployment
\* holds no item.
Init ==
    /\ storageOn \in BOOLEAN
    /\ container = <<>>
    /\ agents = [r \in Registries |-> EmptyMap]
    /\ definitions = [r \in Registries |-> <<>>]
    /\ metadata = [r \in Registries |-> EmptyMap]
    /\ nextId = 0
    /\ twin = EmptyRegistry(TRUE)
    /\ tasks = EmptyMap
    /\ sessions = EmptyMap
    /\ calls = EmptyBag
    /\ nextTask = 0
    /\ apiSessions = EmptyMap
    /\ resp = Response("start", None, 0, None)

\* Every request, with every input.
Next ==
    \/ \E d \in DefinitionInputs, deploy \in BOOLEAN, fo \in FactoryOutcomes :
           api_create_agent(d, deploy, fo)
    \/ \E l \in ListInputs : api_list_agents(l[1], l[2])
    \/ \E n \in Names : api_get_agent(n)
    \/ \E n \in Names, fo \in FactoryOutcomes : api_deploy_agent(n, fo)
    \/ \E n \in Names : api_delete_agent(n)
    \/ \E n \in Names : a2a_get_agent_card(n)
    \/ \E n \in Names, m \in UserMessages, sid \in SessionIdInputs,
          fo \in FactoryOutcomes, dup \in DuplicateSessionOutcomes :
           a2a_create_task(n, m, sid, fo, dup)
    \/ \E call \in BagToSet(calls), outcome \in RuntimeOutcomes :
           a2a_create_task_resume(call, outcome)
    \/ \E n \in Names, t \in TaskIdInputs : a2a_get_task(n, t)
    \/ \E n \in Names, t \in TaskIdInputs, m \in UserMessages, fo \in FactoryOutcomes :
           a2a_send_message_to_task(n, t, m, fo)
    \/ \E call \in BagToSet(calls), outcome \in RuntimeOutcomes :
           a2a_send_message_to_task_resume(call, outcome)
    \/ \E n \in Names, t \in TaskIdInputs : a2a_cancel_task(n, t)
    \/ \E n \in Names, sid \in SessionIdInputs, fo \in FactoryOutcomes :
           api_invoke_agent(n, sid, fo)
    \/ \E call \in BagToSet(calls),
          outcome \in RuntimeOutcomes
                        \cup {[raised |-> FALSE, events |-> <<>>],
                              [raised |-> TRUE, events |-> <<TextEvent("hello")>>]} :
           api_invoke_agent_resume(call, outcome)

Spec == Init /\ [][Next]_vars

\* The management API on its own: every request of api/routes.py with every
\* input, and the agent card of the A2A side.
NextRegistry ==
    \/ \E d \in DefinitionInputs, deploy \in BOOLEAN, fo \in FactoryOutcomes :
           api_create_agent(d, deploy, fo)
    \/ \E l \in ListInputs : api_list_agents(l[1], l[2])
    \/ \E n \in Names : api_get_agent(n)
    \/ \E n \in Names, fo \in FactoryOutcomes : api_deploy_agent(n, fo)
    \/ \E n \in Names : api_delete_agent(n)
    \/ \E n \in Names : a2a_get_agent_card(n)

SpecRegistry == Init /\ [][NextRegistry]_vars

\* The definition the task-side specifications register.
EchoDefinition == AgentDef("a", "first", <<>>, <<"b">>)

\* The task store on its own.  Only a registry backed by the container lets the
\* A2A side see an agent, so the run starts after POST /agents has registered and
\* deployed "a" with storage configured; DELETE /agents/a may follow at any time.
InitTasks ==
    LET S == register_agent([storageOn |-> TRUE, container |-> <<>>,
                             agents |-> [r \in Registries |-> EmptyMap],
                             definitions |-> [r \in Registries |-> <<>>],
                             metadata |-> [r \in Registries |-> EmptyMap],
                             nextId |-> 0],
                            "api", EchoDefinition, TRUE, "ok").S
    IN  /\ storageOn = S.storageOn
        /\ container = S.container
        /\ agents = S.agents
        /\ definitions = S.definitions
        /\ metadata = S.metadata
        /\ nextId = S.nextId
        /\ twin = EmptyRegistry(TRUE)
        /\ tasks = EmptyMap
        /\ sessions = EmptyMap
        /\ calls = EmptyBag
        /\ nextTask = 0
        /\ apiSessions = EmptyMap
        /\ resp = Response("create_agent", "a", 201,
                           build_response(S, "api", "a").ret)

NextTasks ==
    \/ api_delete_agent("a")
    \/ \E n \in Names, m \in UserMessages, sid \in SessionIdInputs,
          fo \in {"ok", "Exception"}, dup \in DuplicateSessionOutcomes :
           a2a_create_task(n, m, sid, fo, dup)
    \/ \E call \in BagToSet(calls), outcome \in RuntimeOutcomes :
           a2a_create_task_resume(call, outcome)
    \/ \E n \in Names, t \in TaskIdInputs, m \in UserMessages, fo \in {"ok", "Exception"} :
           a2a_send_message_to_task(n, t, m, fo)
    \/ \E call \in BagToSet(calls), outcome \in RuntimeOutcomes :
           a2a_send_message_to_task_resume(call, outcome)
    \/ \E n \in Names, t \in TaskIdInputs : a2a_cancel_task(n, t)

SpecTasks == InitTasks /\ [][NextTasks]_vars

\* Both protocols on one agent name: the management requests for "a" and the
\* A2A requests that resolve it.
NextShared ==
    \/ \E deploy \in BOOLEAN, fo \in {"ok", "Exception"} :
           api_create_agent(EchoDefinition, deploy, fo)
    \/ \E fo \in {"ok", "Exception"} : api_deploy_agent("a", fo)
    \/ api_delete_agent("a")
    \/ a2a_get_agent_card("a")
    \/ \E m \in UserMessages, fo \in {"ok", "Exception"}, dup \in DuplicateSessionOutcomes :
           a2a_create_task("a", m, None, fo, dup)
    \/ \E call \in BagToSet(calls), outcome \in RuntimeOutcomes :
           a2a_create_task_resume(call, outcome)

SpecShared == Init /\ [][NextShared]_vars

\* A registry method called on the registry object r, outside any route: code 0
\* with the value it returns, or code -1 with str(exception) when it raises.
MethodResult(op, name, out) ==
    IF out.raised = None THEN Response(op, name, 0, out.ret)
    ELSE Response(op, name, 0 - 1, out.msg)

\* registry.register_agent(definition, deploy) on the registry object r.
registry_register_agent(r, definition, deploy, fo) ==
    LET out == register_agent(RegistryState, r, definition, deploy, fo)
    IN  /\ nextId < MaxIds
        /\ SetRegistry(out.S)
        /\ resp' = MethodResult("register_agent", definition.name, out)
        /\ UNCHANGED taskVars

\* registry.deploy_agent(agent_name) on the registry object r.
registry_deploy_agent(r, agent_name, fo) ==
    LET out == deploy_agent(RegistryState, r, agent_name, fo)
    IN  /\ SetRegistry(out.S)
        /\ resp' = MethodResult("deploy_agent", agent_name, out)
        /\ UNCHANGED taskVars

\* The end-to-end scenario on the registry object and the task store of
\* a2a/routes.py: agent "echo", user message "hi".
ScenarioDefinition == AgentDef("echo", "first", <<>>, <<>>)
HiMessage == Message(USER, <<TextPart("hi")>>)

NextScenario ==
    \/ registry_register_agent("a2a", ScenarioDefinition, FALSE, "ok")
    \/ \E fo \in {"ok", "Exception"} : registry_deploy_agent("a2a", "echo", fo)
    \/ \E m \in {HiMessage} \cup UserMessages, dup \in DuplicateSessionOutcomes :
           a2a_create_task("echo", m, None, "ok", dup)
    \/ \E call \in BagToSet(calls), outcome \in RuntimeOutcomes :
           a2a_create_task_resume(call, outcome)
    \/ \E t \in TaskIdInputs : a2a_get_task("echo", t)

SpecScenario == Init /\ [][NextScenario]_vars

\* Paging of GET /agents: three agent names, every page from two below the
\* first to MaxPage, every page size up to MaxPageSize.
PageNames == {"a", "b", "c"}
PageDefinitions == {AgentDef(n, "first", <<>>, <<>>) : n \in PageNames}
PageNumbers == (0 - 2)..MaxPage
PageSizes == 1..MaxPageSize

NextPages ==
    \/ \E d \in PageDefinitions : api_create_agent(d, FALSE, "ok")
    \/ \E n \in PageNames : api_delete_agent(n)
    \/ \E page \in PageNumbers, page_size \in PageSizes : api_list_agents(page, page_size)

SpecPages == Init /\ [][NextPages]_vars

\* The same registry calls made on an in-memory registry and on its twin backed
\* by storage, with the same factory outcomes.
SetPair(out, outTwin, op, name) ==
    /\ storageOn' = out.S.storageOn
    /\ container' = out.S.container
    /\ agents' = out.S.agents
    /\ definitions' = out.S.definitions
    /\ metadata' = out.S.metadata
    /\ nextId' = out.S.nextId
    /\ twin' = outTwin.S
    /\ resp' = MethodResult(op, name, out)
    /\ UNCHANGED taskVars

pair_register_agent(definition, deploy, fo) ==
    /\ nextId < MaxIds
    /\ SetPair(register_agent(RegistryState, "api", definition, deploy, fo),
               register_agent(twin, "api", definition, deploy, fo),
               "register_agent", definition.name)

pair_deploy_agent(agent_name, fo) ==
    SetPair(deploy_agent(RegistryState, "api", agent_name, fo),
            deploy_agent(twin, "api", agent_name, fo),
            "deploy_agent", agent_name)

pair_get_agent(agent_name) ==
    SetPair(get_agent(RegistryState, "api", agent_name),
            get_agent(twin, "api", agent_name),
            "get_agent", agent_name)

pair_delete_agent(agent_name) ==
    SetPair(delete_agent(RegistryState, "api", agent_name),
            delete_agent(twin, "api", agent_name),
            "delete_agent", agent_name)

InitPair == Init /\ storageOn = FALSE

NextPair ==
    \/ \E d \in DefinitionInputs, deploy \in BOOLEAN, fo \in FactoryOutcomes :
           pair_register_agent(d, deploy, fo)
    \/ \E n \in Names, fo \in FactoryOutcomes : pair_deploy_agent(n, fo)
    \/ \E n \in Names : pair_get_agent(n)
    \/ \E n \in Names : pair_delete_agent(n)

SpecPair == InitPair /\ [][NextPair]_vars

\* The persistence adapter on its own: definitions that differ in every field
\* are saved, their status rewritten, and items deleted.
CodedTool ==
    [name |-> "add", description |-> "adds", parameters |-> "{a: int}",
     function_code |-> "return a"]

StoredDefinitions ==
    { [name |-> n, display_name |-> v[1], description |-> v[2],
       system_prompt |-> v[3], model |-> v[4], tools |-> tls,
       sub_agents |-> v[5], metadata |-> v[6]] :
      n \in Names,
      tls \in { <<>>, <<CodedTool, ToolDef("call_agent")>>,
                <<ToolDef("call_agent"), CodedTool>> },
      v \in { <<"Agent", "first", "prompt", "gpt-4o", <<>>, "{}">>,
              <<"Other", "second", "be brief", "gpt-4o-mini", <<"b", "a">>,
                "{team: x}">> } }

SetContainer(c, op, name, body) ==
    /\ container' = c
    /\ resp' = Response(op, name, 0, body)
    /\ UNCHANGED <<storageOn, agents, definitions, metadata, twin>>
    /\ UNCHANGED taskVars

storage_save_agent(definition) ==
    /\ nextId < MaxIds
    /\ nextId' = nextId + 1
    /\ SetContainer(save_agent(container, definition, nextId + 1, DRAFT),
                    "save_agent", definition.name, definition)

storage_update_agent_status(name, status) ==
    /\ nextId' = nextId
    /\ SetContainer(update_agent_status(container, name, status),
                    "update_agent_status", name, None)

storage_delete(name) ==
    /\ nextId' = nextId
    /\ SetContainer(storage_delete_agent(container, name).c, "delete_agent", name, None)

InitStorage == Init /\ storageOn = TRUE

NextStorage ==
    \/ \E d \in StoredDefinitions : storage_save_agent(d)
    \/ \E n \in Names, st \in {ACTIVE, FAILED} : storage_update_agent_status(n, st)
    \/ \E n \in Names : storage_delete(n)

SpecStorage == InitStorage /\ [][NextStorage]_vars

\* A parent agent that declares two sub-agents, registered and deployed in any
\* order with them.
FamilyNames == {"a", "b", "p"}

FamilyDefinitions ==
    { AgentDef("a", "first", <<>>, <<>>),
      AgentDef("b", "first", <<>>, <<>>),
      AgentDef("p", "first", <<>>, <<"b", "a">>) }

NextFamily ==
    \/ \E d \in FamilyDefinitions, fo \in FactoryOutcomes : api_create_agent(d, FALSE, fo)
    \/ \E n \in FamilyNames, fo \in {"ok", "Exception"} : api_deploy_agent(n, fo)
    \/ \E n \in FamilyNames : api_delete_agent(n)
    \/ \E n \in FamilyNames : api_get_agent(n)

SpecFamily == Init /\ [][NextFamily]_vars

\* The instance factory on its own, given definitions whose tool lists mix
\* registered and unregistered names, next to registrations that deploy.
ToolLists ==
    UNION { [1..k -> {ToolDef(n) : n \in {"add", "get_weather", "call_agent",
                                          "no_such_tool"}}] : k \in 0..MaxTools }

FactoryDefinitions == { AgentDef("a", "first", tls, <<>>) : tls \in ToolLists }

factory_create_agent(definition) ==
    /\ resp' = Response("factory_create_agent", definition.name, 0,
                        [definition |-> definition,
                         agent |-> create_agent(definition, <<>>)])
    /\ UNCHANGED <<registryVars, taskVars>>

NextFactory ==
    \/ \E d \in FactoryDefinitions : factory_create_agent(d)
    \/ \E d \in DefinitionInputs : api_create_agent(d, TRUE, "ok")
    \/ \E n \in Names : api_delete_agent(n)

SpecFactory == Init /\ [][NextFactory]_vars

\* One agent name managed through the management routes and served by both
\* protocols: registered, registered again, deployed, deleted, invoked and
\* given tasks.
NextCache ==
    \/ \E d \in {e \in DefinitionInputs : e.name = "a"}, deploy \in BOOLEAN, fo \in {"ok", "Exception"} :
           api_create_agent(d, deploy, fo)
    \/ \E fo \in {"ok", "Exception"} : api_deploy_agent("a", fo)
    \/ api_delete_agent("a")
    \/ \E fo \in {"ok", "Exception"} :
           a2a_create_task("a", HiMessage, None, fo, "replace")
    \/ \E call \in BagToSet(calls), outcome \in RuntimeOutcomes :
           a2a_create_task_resume(call, outcome)
    \/ \E fo \in {"ok", "Exception"} : api_invoke_agent("a", None, fo)
    \/ \E call \in BagToSet(calls),
          outcome \in RuntimeOutcomes
                        \cup {[raised |-> FALSE, events |-> <<>>],
                              [raised |-> TRUE, events |-> <<TextEvent("hello")>>]} :
           api_invoke_agent_resume(call, outcome)

SpecCache == Init /\ [][NextCache]_vars

\* A stored agent "a" that names the sub-agent "b": both are registered and
\* deployed through the management routes and given tasks on the A2A side.
NextLazy ==
    \/ \E d \in {e \in DefinitionInputs : e.description = "first"}, deploy \in BOOLEAN : api_create_agent(d, deploy, "ok")
    \/ \E n \in Names : api_deploy_agent(n, "ok")
    \/ \E n \in Names : api_delete_agent(n)
    \/ \E n \in Names, fo \in {"ok", "Exception"} :
           a2a_create_task(n, HiMessage, None, fo, "replace")
    \/ \E call \in BagToSet(calls), outcome \in RuntimeOutcomes :
           a2a_create_task_resume(call, outcome)

SpecLazy == Init /\ [][NextLazy]_vars

\* The task store while the agent is deleted, registered and deployed again:
\* tasks are created with no session id, an empty one or a given one,
\* continued under the agent's name, read and canceled under an unregistered
\* name.
NextStore ==
    \/ api_delete_agent("a")
    \/ api_create_agent(EchoDefinition, TRUE, "ok")
    \/ \E sid \in SessionIdInputs : a2a_create_task("a", HiMessage, sid, "ok", "replace")
    \/ \E call \in BagToSet(calls), outcome \in RuntimeOutcomes :
           a2a_create_task_resume(call, outcome)
    \/ \E t \in TaskIdInputs : a2a_get_task("b", t)
    \/ \E t \in TaskIdInputs : a2a_send_message_to_task("a", t, HiMessage, "ok")
    \/ \E call \in BagToSet(calls), outcome \in RuntimeOutcomes :
           a2a_send_message_to_task_resume(call, outcome)
    \/ \E t \in TaskIdInputs : a2a_cancel_task("b", t)

SpecStore == InitTasks /\ [][NextStore]_vars

\* Two deployed agents and a name that was never registered: tasks are created
\* for "a" and then read, continued and canceled under every name.
KeyedNames == Names \cup {"ghost"}

InitKeyed ==
    LET S1 == register_agent(EmptyRegistry(TRUE), "api", EchoDefinition, TRUE, "ok").S
        S == register_agent(S1, "api", AgentDef("b", "first", <<>>, <<>>), TRUE, "ok").S
    IN  /\ storageOn = S.storageOn
        /\ container = S.container
        /\ agents = S.agents
        /\ definitions = S.definitions
        /\ metadata = S.metadata
        /\ nextId = S.nextId
        /\ twin = EmptyRegistry(TRUE)
        /\ tasks = EmptyMap
        /\ sessions = EmptyMap
        /\ calls = EmptyBag
        /\ nextTask = 0
        /\ apiSessions = EmptyMap
        /\ resp = Response("start", None, 0, None)

NextKeyed ==
    \/ a2a_create_task("a", HiMessage, None, "ok", "replace")
    \/ \E call \in BagToSet(calls), outcome \in RuntimeOutcomes :
           a2a_create_task_resume(call, outcome)
    \/ \E n \in KeyedNames, t \in TaskIdInputs : a2a_get_task(n, t)
    \/ \E n \in KeyedNames, t \in TaskIdInputs :
           a2a_send_message_to_task(n, t, HiMessage, "ok")
    \/ \E call \in BagToSet(calls), outcome \in RuntimeOutcomes :
           a2a_send_message_to_task_resume(call, outcome)
    \/ \E n \in KeyedNames, t \in TaskIdInputs : a2a_cancel_task(n, t)

SpecKeyed == InitKeyed /\ [][NextKeyed]_vars

\* The session services of both route modules: the task routes and the invoke
\* route on agent "a", registered and deployed with storage configured, with
\* and without a session id in the request.
NextSessions ==
    \/ \E m \in UserMessages, sid \in SessionIdInputs, dup \in DuplicateSessionOutcomes :
           a2a_create_task("a", m, sid, "ok", dup)
    \/ \E call \in BagToSet(calls), outcome \in RuntimeOutcomes :
           a2a_create_task_resume(call, outcome)
    \/ \E t \in TaskIdInputs, m \in UserMessages :
           a2a_send_message_to_task("a", t, m, "ok")
    \/ \E call \in BagToSet(calls), outcome \in RuntimeOutcomes :
           a2a_send_message_to_task_resume(call, outcome)
    \/ \E n \in Names, sid \in SessionIdInputs : api_invoke_agent(n, sid, "ok")
    \/ \E call \in BagToSet(calls),
          outcome \in RuntimeOutcomes
                        \cup {[raised |-> FALSE, events |-> <<>>],
                              [raised |-> TRUE, events |-> <<TextEvent("hello")>>]} :
           api_invoke_agent_resume(call, outcome)

SpecSessions == InitTasks /\ [][NextSessions]_vars

\* ----------------------------------------------------------------- claims
\* The registry-side state after the step.
RegistryStateNext ==
    [storageOn |-> storageOn', container |-> container', agents |-> agents',
     definitions |-> definitions', metadata |-> metadata', nextId |-> nextId']

\* The management registry holds a record under the name.
Registered(S, n) ==
    IF S.storageOn THEN DictHas(S.container, n) ELSE DictHas(S.definitions["api"], n)

\* The stored status of a registered name.
StoredStatus(S, n) ==
    IF S.storageOn THEN DictGet(S.container, n).status ELSE S.metadata["api"][n].status

\* The stored id of a registered name.
StoredId(S, n) ==
    IF S.storageOn THEN DictGet(S.container, n).agent_id ELSE S.metadata["api"][n].id

\* The error message stored with a registered name, None when there is none.
StoredError(S, n) ==
    IF S.storageOn
    THEN (IF "error" \in DOMAIN DictGet(S.container, n)
          THEN DictGet(S.container, n).error ELSE None)
    ELSE S.metadata["api"][n].error

SeqElements(s) == {s[i] : i \in 1..Len(s)}

TaskFactoryInputs == {"ok", "Exception"}

\* C1: the Task a create_task request returns is in state completed or failed,
\* never working or submitted, whatever the runtime did; the stored task agrees.
C1_CreateTaskResolves ==
    (resp.op = "create_task" /\ resp.code = 200)
        => resp.body.state \in {COMPLETED, TASK_FAILED}

\* C1 witness: a create_task has returned a failed task (the runtime raised)
\* after an earlier one returned a completed task.
C1_Witness ==
    /\ resp.op = "create_task" /\ resp.code = 200
    /\ resp.body.state = TASK_FAILED
    /\ resp.body.metadata = MapSet(EmptyMap, "error", RuntimeErrorText)
    /\ \E t \in DOMAIN tasks : tasks[t].state = COMPLETED /\ Len(tasks[t].messages) = 2

\* C2: a send_message_to_task request on a task in state failed or canceled is
\* answered 400 and leaves the whole task store as it was.
C2_SendRejectedOnFailedOrCanceled ==
    [][\A t \in DOMAIN tasks, n \in Names, m \in UserMessages, fo \in TaskFactoryInputs :
          (tasks[t].state \in {CANCELED, TASK_FAILED}
             /\ a2a_send_message_to_task(n, t, m, fo))
          => /\ \E detail \in InvalidStateText(tasks[t].state) :
                   resp' = Response("send_message_to_task", n, 400, detail)
             /\ tasks'[t].messages = tasks[t].messages
             /\ tasks'[t].state = tasks[t].state
             /\ tasks' = tasks]_vars

\* C2 witness: a message sent to a canceled task that holds a full exchange
\* has been answered 400.
C2_Witness ==
    /\ resp.op = "send_message_to_task" /\ resp.code = 400
    /\ resp.body \in InvalidStateText(CANCELED)
    /\ \E t \in DOMAIN tasks : tasks[t].state = CANCELED /\ Len(tasks[t].messages) = 2
    /\ \E t \in DOMAIN tasks : tasks[t].state = TASK_FAILED

\* C3: cancel_task on an existing task answers with the task in state canceled
\* whatever its state was, a cancel of an already canceled task leaves the
\* stored task as it is, and an unknown task id is answered 404.
C3_CancelIdempotent ==
    [][\A t \in TaskIdInputs, n \in Names :
          a2a_cancel_task(n, t)
          => IF t \in DOMAIN tasks
             THEN /\ resp'.code = 200
                  /\ resp'.body.state = CANCELED
                  /\ resp'.body = tasks'[t]
                  /\ tasks'[t].state = CANCELED
                  /\ (tasks[t].state = CANCELED => tasks' = tasks)
             ELSE /\ resp' = Response("cancel_task", n, 404, TaskNotFoundText(t))
                  /\ tasks' = tasks]_vars

\* C3 witness: a task has been canceled while its send_message_to_task exchange
\* was in flight (prior state working), next to a task that had failed.
C3_Witness ==
    /\ resp.op = "cancel_task" /\ resp.code = 200
    /\ resp.body.state = CANCELED
    /\ \E call \in BagToSet(calls) :
          call.op = "send_message_to_task" /\ call.task_id = resp.body.id
    /\ \E t \in DOMAIN tasks : "error" \in DOMAIN tasks[t].metadata

\* C4 (as claimed): once a task is canceled it stays canceled and its message
\* list no longer changes, also while a send_message_to_task is in flight.
C4_CanceledIsTerminal ==
    [][\A t \in DOMAIN tasks :
          tasks[t].state = CANCELED
          => /\ tasks'[t].state = CANCELED
             /\ tasks'[t].messages = tasks[t].messages]_vars

\* C5 (as claimed): an agent registered and deployed through the management
\* API is found by the A2A agent card and by create_task, and create_task for a
\* name the management API does not hold is answered 404.
C5_SharedRegistry ==
    [][/\ (a2a_get_agent_card("a") /\ Registered(RegistryState, "a")
             /\ StoredStatus(RegistryState, "a") = ACTIVE)
             => resp'.code = 200
       /\ \A m \in UserMessages, fo \in TaskFactoryInputs, dup \in DuplicateSessionOutcomes :
             a2a_create_task("a", m, None, fo, dup)
             => IF Registered(RegistryState, "a")
                THEN (StoredStatus(RegistryState, "a") = ACTIVE
                        /\ "a" \in DOMAIN agents["api"] /\ fo = "ok")
                     => (nextTask' = nextTask + 1 /\ "a" \in DOMAIN agents'["a2a"])
                ELSE /\ resp' = Response("create_task", "a", 404, NotDeployedText("a"))
                     /\ UNCHANGED taskVars]_vars

\* C6: registering a name the registry does not hold, without deploy, answers
\* 201 with a DRAFT record; a list made right afterwards holds that record and
\* a total one greater than before; an empty registry lists nothing, total 0.
C6_RegisterDraftListed ==
    [][/\ \A d \in DefinitionInputs, fo \in FactoryOutcomes :
             (api_create_agent(d, FALSE, fo) /\ ~Registered(RegistryState, d.name))
             => LET before == list_agents(RegistryState, "api", 1, 10).ret
                    after == list_agents(RegistryStateNext, "api", 1, 10).ret
                IN  /\ resp'.code = 201
                    /\ resp'.body.name = d.name
                    /\ resp'.body.status = DRAFT
                    /\ after.total = before.total + 1
                    /\ resp'.body \in SeqElements(after.agents)
       /\ \A l \in ListInputs :
             (api_list_agents(l[1], l[2]) /\ \A n \in Names : ~Registered(RegistryState, n))
             => (resp'.body.agents = <<>> /\ resp'.body.total = 0)]_vars

\* C6 witness: the second of two fresh names has just been registered as DRAFT
\* and the registry lists two records.
C6_Witness ==
    /\ resp.op = "create_agent" /\ resp.code = 201
    /\ resp.body.status = DRAFT /\ resp.body.id = 2
    /\ list_agents(RegistryState, "api", 1, 10).ret.total = 2

\* C7: deploying a registered DRAFT agent with a factory call that succeeds
\* answers with the record ACTIVE and a non-empty invocation endpoint, and the
\* instance is cached under the name.
C7_DeployActivates ==
    [][\A n \in Names :
          (api_deploy_agent(n, "ok") /\ Registered(RegistryState, n)
             /\ StoredStatus(RegistryState, n) = DRAFT)
          => /\ resp'.code = 200
             /\ resp'.body.name = n
             /\ resp'.body.status = ACTIVE
             /\ StoredStatus(RegistryStateNext, n) = ACTIVE
             /\ resp'.body.a2a_endpoint \notin {None, ""}
             /\ n \in DOMAIN agents'["api"]
             /\ agents'["api"][n].name = n]_vars

\* C7 witness: a deploy request has answered ACTIVE for "a", whose instance is
\* cached, while "b" is still DRAFT.
C7_Witness ==
    /\ resp.op = "deploy_agent" /\ resp.code = 200 /\ resp.name = "a"
    /\ resp.body.status = ACTIVE
    /\ "a" \in DOMAIN agents["api"]
    /\ Registered(RegistryState, "b") /\ StoredStatus(RegistryState, "b") = DRAFT

\* C8: deploying a name that has no definition is answered 404 and leaves the
\* registry, its metadata and its instance cache as they were.
C8_DeployUnknownNotFound ==
    [][\A n \in Names, fo \in FactoryOutcomes :
          (api_deploy_agent(n, fo) /\ ~Registered(RegistryState, n))
          => /\ resp' = Response("deploy_agent", n, 404, NotFoundText(n))
             /\ UNCHANGED registryVars
             /\ ~Registered(RegistryStateNext, n)
             /\ n \notin DOMAIN agents'["api"]]_vars

\* C8 witness: deploy of "b" has been answered 404 while "a" is registered.
C8_Witness ==
    /\ resp = Response("deploy_agent", "b", 404, NotFoundText("b"))
    /\ Registered(RegistryState, "a")
    /\ ~Registered(RegistryState, "b")

\* C9 (as claimed): a deploy whose factory call raises leaves the record FAILED
\* with the error message stored on it and is not answered as a success; the
\* record then stays FAILED for as long as it exists, under every request but a
\* deploy or a new registration of that name.
C9_DeployFailureRecorded ==
    [][\A n \in Names :
          /\ \A fo \in FactoryOutcomes \ {"ok"} :
                (api_deploy_agent(n, fo) /\ Registered(RegistryState, n))
                => /\ resp'.code # 200
                   /\ StoredStatus(RegistryStateNext, n) = FAILED
                   /\ StoredError(RegistryStateNext, n) = ErrorText(fo)
          /\ (Registered(RegistryState, n) /\ StoredStatus(RegistryState, n) = FAILED
                /\ ~(\E fo \in FactoryOutcomes : api_deploy_agent(n, fo))
                /\ ~(\E d \in DefinitionInputs, deploy \in BOOLEAN, fo \in FactoryOutcomes :
                        d.name = n /\ api_create_agent(d, deploy, fo))
                /\ Registered(RegistryStateNext, n))
             => StoredStatus(RegistryStateNext, n) = FAILED]_vars

\* C10: a get of an unregistered name is answered 404 with no record; a get of
\* a registered name answers with the record stored under that name.
C10_GetAgent ==
    [][\A n \in Names :
          api_get_agent(n)
          => IF Registered(RegistryState, n)
             THEN /\ resp'.code = 200
                  /\ resp'.body.name = n
                  /\ resp'.body.id = StoredId(RegistryState, n)
                  /\ resp'.body.status = StoredStatus(RegistryState, n)
             ELSE resp' = Response("get_agent", n, 404, NotFoundText(n))]_vars

\* C10 witness: a get of "b" has been answered 404 while "a" is registered.
C10_Witness ==
    /\ resp = Response("get_agent", "b", 404, NotFoundText("b"))
    /\ Registered(RegistryState, "a")

\* The names of the records a list of the whole management registry returns.
ListedNames(S) ==
    {x.name : x \in SeqElements(list_agents(S, "api", 1, MaxIds + 1).ret.agents)}

\* C11: a delete of an unregistered name is answered 404 and changes nothing; a
\* delete of a registered name is answered 204 and removes definition, metadata
\* and cached instance together: right afterwards get raises not-found,
\* get_agent_instance returns None and list does not hold the name.
C11_DeleteRemovesAll ==
    [][\A n \in Names :
          api_delete_agent(n)
          => IF Registered(RegistryState, n)
             THEN /\ resp' = Response("delete_agent", n, 204, None)
                  /\ ~Registered(RegistryStateNext, n)
                  /\ n \notin DOMAIN agents'["api"]
                  /\ n \notin DOMAIN metadata'["api"]
                  /\ get_agent(RegistryStateNext, "api", n).raised = "ValueError"
                  /\ get_agent(RegistryStateNext, "api", n).msg = NotFoundText(n)
                  /\ \A fo \in FactoryOutcomes :
                        get_agent_instance(RegistryStateNext, "api", n, fo).ret = NoneObj
                  /\ n \notin ListedNames(RegistryStateNext)
                  /\ ListedNames(RegistryStateNext) = ListedNames(RegistryState) \ {n}
             ELSE /\ resp' = Response("delete_agent", n, 404, NotFoundText(n))
                  /\ UNCHANGED registryVars]_vars

\* C11 witness: "a" has just been deleted (204) while "b" is still registered,
\* active and cached.
C11_Witness ==
    /\ resp = Response("delete_agent", "a", 204, None)
    /\ ~Registered(RegistryState, "a")
    /\ Registered(RegistryState, "b") /\ StoredStatus(RegistryState, "b") = ACTIVE
    /\ "b" \in DOMAIN agents["api"]
    /\ nextId = MaxIds

\* The records of the in-memory management registry in insertion order.
RecordsInOrder(S) ==
    [i \in 1..Len(S.definitions["api"]) |->
        build_response(S, "api", S.definitions["api"][i].name).ret]

\* Number of records the management registry holds.
TotalRegistered(S) ==
    IF S.storageOn THEN Len(S.container) ELSE Len(S.definitions["api"])

\* Number of pages of the given size that hold a record: ceil(n / page_size).
PageCount(n, page_size) == (n + page_size - 1) \div page_size

RECURSIVE ConcatPages(_, _, _, _)
\* The records of pages page..last of the given size, one after the other.
ConcatPages(S, page_size, page, last) ==
    IF page > last THEN <<>>
    ELSE list_agents(S, "api", page, page_size).ret.agents
         \o ConcatPages(S, page_size, page + 1, last)

\* C12: for the in-memory registry holding n agents, a list of page >= 1 with
\* page_size >= 1 answers total = n and exactly the records at insertion
\* positions (page-1)*page_size+1 .. min(page*page_size, n), in registration
\* order (a fresh name goes last); the pages of one size, taken in turn, hold
\* every record exactly once.
C12_PagesInRegistrationOrder ==
    [][/\ \A page \in PageNumbers, page_size \in PageSizes :
             (api_list_agents(page, page_size) /\ ~storageOn /\ page >= 1)
             => LET all == RecordsInOrder(RegistryState)
                    n == Len(all)
                    lo == (page - 1) * page_size + 1
                    hi == IF page * page_size < n THEN page * page_size ELSE n
                IN  /\ resp'.code = 200
                    /\ resp'.body.total = n
                    /\ Len(resp'.body.agents) = (IF hi >= lo THEN hi - lo + 1 ELSE 0)
                    /\ \A i \in 1..Len(resp'.body.agents) :
                          resp'.body.agents[i] = all[lo + i - 1]
                    /\ ConcatPages(RegistryState, page_size, 1, PageCount(n, page_size)) = all
                    /\ \A i, j \in 1..n : all[i].name = all[j].name => i = j
       /\ \A d \in PageDefinitions :
             (api_create_agent(d, FALSE, "ok") /\ ~storageOn
                /\ ~Registered(RegistryState, d.name))
             => MapSeq(RecordsInOrder(RegistryStateNext), LAMBDA x : x.name)
                  = Append(MapSeq(RecordsInOrder(RegistryState), LAMBDA x : x.name), d.name)]_vars

\* C12 witness: with three agents in the in-memory registry, page 2 of size 2
\* has been answered with one record, the one registered last, and total 3.
C12_Witness ==
    /\ ~storageOn
    /\ resp.op = "list_agents" /\ resp.code = 200
    /\ resp.body.page = 2 /\ resp.body.page_size = 2
    /\ resp.body.total = 3 /\ Len(resp.body.agents) = 1
    /\ resp.body.agents[1].name = definitions["api"][3].name

\* C13 (as claimed): a list of a page outside 1..ceil(total/page_size), page 0
\* and negative pages included, answers without error with no record and the
\* correct total.
C13_OutOfRangePageEmpty ==
    [][\A page \in PageNumbers, page_size \in PageSizes :
          (api_list_agents(page, page_size)
             /\ (page < 1 \/ page > PageCount(TotalRegistered(RegistryState), page_size)))
          => /\ resp'.code = 200
             /\ resp'.body.total = TotalRegistered(RegistryState)
             /\ resp'.body.agents = <<>>]_vars

\* C14: on one registry and task store, registering "echo" without deploy
\* returns DRAFT; deploying it with a factory call that succeeds returns ACTIVE
\* with a non-empty endpoint; create_task for "echo" with the user message "hi"
\* is then accepted and, the runtime replying "hello", returns and stores a task
\* with exactly the messages user "hi", agent "hello" and state completed.
C14_EndToEndScenario ==
    [][/\ (registry_register_agent("a2a", ScenarioDefinition, FALSE, "ok")
             /\ get_definition(RegistryState, "a2a", "echo") = NoneObj)
          => (resp'.code = 0 /\ resp'.body.name = "echo" /\ resp'.body.status = DRAFT)
       /\ (registry_deploy_agent("a2a", "echo", "ok")
             /\ get_definition(RegistryState, "a2a", "echo") # NoneObj
             /\ get_agent(RegistryState, "a2a", "echo").ret.status = DRAFT)
          => /\ resp'.code = 0
             /\ resp'.body.status = ACTIVE
             /\ resp'.body.a2a_endpoint \notin {None, ""}
             /\ get_agent(RegistryStateNext, "a2a", "echo").ret.status = ACTIVE
       /\ \A dup \in DuplicateSessionOutcomes :
             (a2a_create_task("echo", HiMessage, None, "ok", dup)
                /\ resp.op = "deploy_agent" /\ resp.code = 0)
             => (InFlight' = InFlight + 1 /\ nextTask' = nextTask + 1)
       /\ \A call \in BagToSet(calls), outcome \in RuntimeOutcomes :
             (a2a_create_task_resume(call, outcome) /\ ~outcome.raised
                /\ call.agent_name = "echo" /\ call.task.messages = <<HiMessage>>)
             => /\ resp'.code = 200
                /\ resp'.body.messages = <<HiMessage, Message(AGENT, <<TextPart("hello")>>)>>
                /\ resp'.body.state = COMPLETED
                /\ resp'.body.id = call.task_id
                /\ tasks'[call.task_id] = resp'.body]_vars

\* C14 witness: "echo" was registered once, is ACTIVE, and the first task has
\* come back completed with the messages user "hi", agent "hello".
C14_Witness ==
    /\ nextId = 1 /\ nextTask = 1
    /\ get_agent(RegistryState, "a2a", "echo").ret.status = ACTIVE
    /\ resp.op = "create_task" /\ resp.code = 200
    /\ resp.body.state = COMPLETED
    /\ resp.body.messages = <<HiMessage, Message(AGENT, <<TextPart("hello")>>)>>
    /\ tasks[TaskId(1)] = resp.body

\* The A2A registry can produce an instance for the name: one is cached, or the
\* container holds an ACTIVE item from which the factory call fo rebuilds it.
HasInstance(S, n, fo) ==
    \/ n \in DOMAIN S.agents["a2a"]
    \/ /\ S.storageOn
       /\ DictHas(S.container, n)
       /\ DictGet(S.container, n).status = ACTIVE
       /\ fo = "ok"

\* The same for the management registry, whose instances the invoke route uses
\* (the factory call succeeding).
HasInstanceApi(S, n) ==
    \/ n \in DOMAIN S.agents["api"]
    \/ /\ S.storageOn
       /\ DictHas(S.container, n)
       /\ DictGet(S.container, n).status = ACTIVE

\* C15: create_task for an agent name without a deployed instance is answered
\* 404 and stores nothing: the task map, the sessions, the exchanges in flight
\* and the task id counter are as before.
C15_CreateTaskNoInstance ==
    [][\A m \in UserMessages, fo \in TaskFactoryInputs, dup \in DuplicateSessionOutcomes :
          (a2a_create_task("a", m, None, fo, dup) /\ ~HasInstance(RegistryState, "a", fo))
          => /\ resp' = Response("create_task", "a", 404, NotDeployedText("a"))
             /\ tasks' = tasks
             /\ sessions' = sessions
             /\ calls' = calls
             /\ nextTask' = nextTask]_vars

\* C15 witness: with storage configured and "a" registered but not ACTIVE,
\* create_task has been answered 404 and no task or session exists.
C15_Witness ==
    /\ resp = Response("create_task", "a", 404, NotDeployedText("a"))
    /\ storageOn
    /\ Registered(RegistryState, "a")
    /\ StoredStatus(RegistryState, "a") \in {DRAFT, FAILED}
    /\ tasks = EmptyMap /\ sessions = EmptyMap /\ nextTask = 0

\* C16: when the runtime raises during the exchange of create_task or of
\* send_message_to_task, the request is still answered 200 with the Task: its
\* state is failed, the error string is in its metadata, no agent message has
\* been appended, and that Task is the one held in the task map.
C16_RuntimeErrorBecomesFailedTask ==
    [][\A call \in BagToSet(calls), outcome \in RuntimeOutcomes :
          outcome.raised
          => /\ a2a_create_task_resume(call, outcome)
                => /\ resp'.op = "create_task" /\ resp'.code = 200
                   /\ resp'.body.state = TASK_FAILED
                   /\ "error" \in DOMAIN resp'.body.metadata
                   /\ resp'.body.metadata["error"] = RuntimeErrorText
                   /\ resp'.body.messages = call.task.messages
                   /\ call.task_id \in DOMAIN tasks'
                   /\ tasks'[call.task_id] = resp'.body
             /\ a2a_send_message_to_task_resume(call, outcome)
                => /\ resp'.op = "send_message_to_task" /\ resp'.code = 200
                   /\ resp'.body.state = TASK_FAILED
                   /\ "error" \in DOMAIN resp'.body.metadata
                   /\ resp'.body.metadata["error"] = RuntimeErrorText
                   /\ resp'.body.messages = tasks[call.task_id].messages
                   /\ tasks'[call.task_id] = resp'.body]_vars

\* C16 witness: a send_message_to_task whose exchange raised has returned the
\* failed task (user, agent, user: no reply to the last message) next to a
\* task whose create_task exchange raised (one message).
C16_Witness ==
    /\ resp.op = "send_message_to_task" /\ resp.code = 200
    /\ resp.body.state = TASK_FAILED
    /\ resp.body.metadata = MapSet(EmptyMap, "error", RuntimeErrorText)
    /\ Len(resp.body.messages) = 3
    /\ resp.body.messages[3].role = USER
    /\ tasks[resp.body.id] = resp.body
    /\ \E t \in DOMAIN tasks :
          tasks[t].state = TASK_FAILED /\ Len(tasks[t].messages) = 1

\* The exchanges in flight for a task id.
CallsOf(c, t) == {call \in BagToSet(c) : call.task_id = t}

\* C17: send_message_to_task on an existing task that is neither canceled nor
\* failed (a completed task included) and whose agent has an instance appends
\* the user message, sets the state to working and starts one exchange on the
\* task's existing session; when the exchange ends the request returns the
\* task completed with the agent reply appended last, or failed, never working.
C17_SendMessageResolves ==
    [][/\ \A t \in DOMAIN tasks, n \in Names, m \in UserMessages, fo \in TaskFactoryInputs :
             (a2a_send_message_to_task(n, t, m, fo)
                /\ tasks[t].state \notin {CANCELED, TASK_FAILED}
                /\ HasInstance(RegistryState, n, fo))
             => /\ tasks'[t].messages = Append(tasks[t].messages, m)
                /\ tasks'[t].state = WORKING
                /\ tasks'[t].session_id = tasks[t].session_id
                /\ InFlight' = InFlight + 1
                /\ \E call \in CallsOf(calls', t) :
                      /\ call.op = "send_message_to_task"
                      /\ CopiesIn(call, calls') = CopiesIn(call, calls) + 1
                /\ DOMAIN sessions' = DOMAIN sessions
                /\ sessions'[tasks[t].session_id] = sessions[tasks[t].session_id] + 1
                /\ \A sid \in DOMAIN sessions \ {tasks[t].session_id} :
                      sessions'[sid] = sessions[sid]
       /\ \A call \in BagToSet(calls), outcome \in RuntimeOutcomes :
             a2a_send_message_to_task_resume(call, outcome)
             => /\ resp'.code = 200
                /\ resp'.body = tasks'[call.task_id]
                /\ resp'.body.state \in {COMPLETED, TASK_FAILED}
                /\ resp'.body.state = (IF outcome.raised THEN TASK_FAILED ELSE COMPLETED)
                /\ ~outcome.raised
                   => resp'.body.messages
                        = Append(tasks[call.task_id].messages,
                                 Message(AGENT, <<TextPart("hello")>>))]_vars

\* C17 witness: a completed task was reopened by a second message and has come
\* back completed with four messages, the agent reply last, its session
\* having served two turns.
C17_Witness ==
    /\ resp.op = "send_message_to_task" /\ resp.code = 200
    /\ resp.body.state = COMPLETED
    /\ Len(resp.body.messages) = 4
    /\ resp.body.messages[2].role = AGENT /\ resp.body.messages[3].role = USER
    /\ resp.body.messages[4] = Message(AGENT, <<TextPart("hello")>>)
    /\ sessions[resp.body.session_id] = 2
    /\ CallsOf(calls, resp.body.id) = {}

\* C18 (as claimed): the mutations of one task id are serialized: at most one
\* exchange is in flight for a task at a time, so in its message list no user
\* message is followed by another user message (each is followed by the reply
\* of its own exchange), and a handler that returns leaves no other exchange
\* of that task behind to overwrite the state it has set.
C18_TaskMutationsSerialized ==
    \A t \in DOMAIN tasks :
        /\ \A call \in CallsOf(calls, t) : CopiesIn(call, calls) = 1
        /\ Cardinality(CallsOf(calls, t)) <= 1
        /\ \A i \in 1..(Len(tasks[t].messages) - 1) :
              tasks[t].messages[i].role = USER => tasks[t].messages[i + 1].role = AGENT

\* C19 (as claimed): sessions are keyed by id, created lazily and shared.  A
\* create_task or an invoke that carries the id of an existing session runs
\* its turn on that session, which is neither created again nor replaced, and
\* the request does not fail because of it; a session is created only when
\* none exists for the id; send_message_to_task runs on the session of its
\* task.
C19_SessionsReused ==
    [][/\ \A m \in UserMessages, sid \in SessionIdInputs, dup \in DuplicateSessionOutcomes :
             a2a_create_task("a", m, sid, "ok", dup)
             => IF sid \notin {None, ""} /\ sid \in DOMAIN sessions
                THEN /\ DOMAIN sessions' = DOMAIN sessions
                     /\ sessions'[sid] = sessions[sid] + 1
                     /\ InFlight' = InFlight + 1
                     /\ tasks' = tasks
                ELSE /\ Cardinality(DOMAIN sessions') = Cardinality(DOMAIN sessions) + 1
                     /\ sid \notin {None, ""} => sid \in DOMAIN sessions'
       /\ \A n \in Names, sid \in SessionIdInputs :
             (api_invoke_agent(n, sid, "ok") /\ HasInstanceApi(RegistryState, n))
             => IF sid \notin {None, ""} /\ sid \in DOMAIN apiSessions
                THEN /\ DOMAIN apiSessions' = DOMAIN apiSessions
                     /\ apiSessions'[sid] = apiSessions[sid] + 1
                ELSE /\ Cardinality(DOMAIN apiSessions') = Cardinality(DOMAIN apiSessions) + 1
                     /\ sid \notin {None, ""} => sid \in DOMAIN apiSessions'
       /\ \A t \in DOMAIN tasks, m \in UserMessages :
             (a2a_send_message_to_task("a", t, m, "ok")
                /\ tasks[t].state \notin {CANCELED, TASK_FAILED})
             => /\ DOMAIN sessions' = DOMAIN sessions
                /\ sessions'[tasks[t].session_id] = sessions[tasks[t].session_id] + 1]_vars

\* C20: get_agent_instance never raises.  It returns the cached instance when
\* one is cached and changes nothing; with none cached and an ACTIVE item of
\* that name in storage it rebuilds the instance, caches it and returns it, or
\* returns None, caching nothing, when the rebuild fails; with no item, an item
\* that is not ACTIVE, or no storage, it returns None and changes nothing.
C20_GetInstance ==
    \A r \in Registries, n \in Names, fo \in FactoryOutcomes :
        LET out == get_agent_instance(RegistryState, r, n, fo)
        IN  /\ out.raised = None
            /\ IF n \in DOMAIN agents[r]
               THEN out.ret = agents[r][n] /\ out.S = RegistryState
               ELSE IF storageOn /\ DictHas(container, n)
                       /\ DictGet(container, n).status = ACTIVE /\ fo = "ok"
               THEN /\ out.ret # NoneObj
                    /\ out.ret.name = n
                    /\ out.ret.instruction = DictGet(container, n).system_prompt
                    /\ out.S = [RegistryState EXCEPT
                                   !.agents[r] = MapSet(agents[r], n, out.ret)]
               ELSE out.ret = NoneObj /\ out.S = RegistryState

\* C20 witness: the A2A registry, which nothing deploys into, holds an instance
\* of "a" rebuilt from the ACTIVE item in storage, and the create_task that
\* asked for it has been served.
C20_Witness ==
    /\ storageOn
    /\ "a" \in DOMAIN agents["a2a"]
    /\ agents["a2a"]["a"].name = "a"
    /\ resp.op = "create_task" /\ resp.code = 200

\* C21 (as claimed): the agent card of a name without a registered definition
\* is answered 404, not with an unclassified error; the card of a registered
\* name carries that name and the record's description and status.
C21_AgentCardNotFound ==
    [][\A n \in Names :
          (resp'.op = "get_agent_card" /\ resp'.name = n /\ a2a_get_agent_card(n))
          => IF get_definition(RegistryState, "a2a", n) = NoneObj
             THEN resp'.code = 404
             ELSE /\ resp'.code = 200
                  /\ resp'.body.name = n
                  /\ resp'.body.description
                        = get_definition(RegistryState, "a2a", n).description
                  /\ resp'.body.metadata.status
                        = get_agent(RegistryState, "a2a", n).ret.status]_vars

\* C22 (as claimed): once the status of a registered name has left DRAFT, no
\* request that keeps the name registered puts it back to DRAFT.
C22_NoBackToDraft ==
    [][\A n \in Names :
          (Registered(RegistryState, n) /\ StoredStatus(RegistryState, n) # DRAFT
             /\ Registered(RegistryStateNext, n))
          => StoredStatus(RegistryStateNext, n) # DRAFT]_vars

\* C22 (amended): a status that has left DRAFT goes back to DRAFT only by a new
\* registration of that name; no deploy, get, list, agent card or delete of
\* any name, and no registration of another name, puts it back.
C22_BackToDraftOnlyByRegister ==
    [][\A n \in Names :
          (Registered(RegistryState, n) /\ StoredStatus(RegistryState, n) # DRAFT
             /\ Registered(RegistryStateNext, n)
             /\ ~(resp'.op = "create_agent" /\ resp'.name = n))
          => StoredStatus(RegistryStateNext, n) = StoredStatus(RegistryState, n)
             \/ (resp'.op = "deploy_agent" /\ resp'.name = n
                   /\ StoredStatus(RegistryStateNext, n) \in {ACTIVE, FAILED})]_vars

\* C22 witness: "a", deployed earlier (its instance is still cached), has been
\* registered again and is DRAFT under a new id.
C22_Witness ==
    /\ resp.op = "create_agent" /\ resp.code = 201 /\ resp.name = "a"
    /\ resp.body.status = DRAFT /\ resp.body.id > 1
    /\ StoredStatus(RegistryState, "a") = DRAFT
    /\ "a" \in DOMAIN agents["api"]

\* C23 (as claimed): an in-memory registry and one backed by storage, given
\* the same register, deploy, get and delete calls with the same factory
\* outcomes, raise not-found in the same calls and return records with the same
\* status and the same presence of the endpoint, and hold the same recorded
\* deployment errors.  What a caller sees of a call is the exception class when
\* it raises, else status and presence of the endpoint of the record (a delete
\* returns nothing).
C23_StorageHidden ==
    [][LET Observed(out) ==
               IF out.raised # None
               THEN [raised |-> out.raised, status |-> None, endpoint |-> FALSE]
               ELSE IF out.ret = NoneObj
               THEN [raised |-> None, status |-> None, endpoint |-> FALSE]
               ELSE [raised |-> None, status |-> out.ret.status,
                     endpoint |-> out.ret.a2a_endpoint # None]
           RecordedErrors(S) ==
               [n \in {m \in Names : Registered(S, m)} |-> StoredError(S, n)]
       IN
       /\ \A d \in DefinitionInputs, deploy \in BOOLEAN, fo \in FactoryOutcomes :
             (resp'.op = "register_agent" /\ pair_register_agent(d, deploy, fo))
             => Observed(register_agent(RegistryState, "api", d, deploy, fo))
                  = Observed(register_agent(twin, "api", d, deploy, fo))
       /\ \A n \in Names, fo \in FactoryOutcomes :
             (resp'.op = "deploy_agent" /\ pair_deploy_agent(n, fo))
             => Observed(deploy_agent(RegistryState, "api", n, fo))
                  = Observed(deploy_agent(twin, "api", n, fo))
       /\ \A n \in Names :
             (resp'.op = "get_agent" /\ pair_get_agent(n))
             => Observed(get_agent(RegistryState, "api", n))
                  = Observed(get_agent(twin, "api", n))
       /\ \A n \in Names :
             (resp'.op = "delete_agent" /\ pair_delete_agent(n))
             => Observed(delete_agent(RegistryState, "api", n))
                  = Observed(delete_agent(twin, "api", n))
       /\ RecordedErrors(RegistryStateNext) = RecordedErrors(twin')]_vars

\* C24: saving a definition and converting the stored item back with
\* to_definition gives the definition again: name, display name, description,
\* system prompt, model, the tools in order, the sub-agent names and metadata.
C24_RoundTrip ==
    resp.op = "save_agent"
    => /\ storage_get_agent(container, resp.name) # NoneObj
       /\ to_definition(storage_get_agent(container, resp.name)) = resp.body

C24_Witness ==
    /\ resp.op = "save_agent"
    /\ Len(container) = 2
    /\ Len(resp.body.tools) = 2
    /\ resp.body.tools[2] = CodedTool
    /\ resp.body.sub_agents = <<"b", "a">>
    /\ resp.body.metadata # "{}"
    /\ to_definition(storage_get_agent(container, resp.name)).tools[2] = CodedTool

\* C25 (as claimed): a deploy request of a registered name whose factory call
\* raises is not answered with an error status; the failure shows only in the
\* status FAILED of the record.
C25_DeployFailureNotRaised ==
    [][\A n \in Names, fo \in FactoryOutcomes \ {"ok"} :
          (resp'.op = "deploy_agent" /\ resp'.name = n
             /\ api_deploy_agent(n, fo) /\ Registered(RegistryState, n))
          => /\ resp'.code < 400
             /\ StoredStatus(RegistryStateNext, n) = FAILED]_vars

\* C26: a cancel of an existing task rewrites only its state: id, session id,
\* messages, artifacts and metadata stay, every other task stays, and the
\* exchanges in flight stay in flight; an exchange in flight on a canceled task
\* can still end and write its result.
C26_CancelOnlyFlipsState ==
    /\ [][\A t \in TaskIdInputs, n \in Names :
             (resp'.op = "cancel_task" /\ resp'.name = n /\ t \in DOMAIN tasks
                /\ a2a_cancel_task(n, t))
             => /\ tasks'[t] = [tasks[t] EXCEPT !.state = CANCELED]
                /\ DOMAIN tasks' = DOMAIN tasks
                /\ \A u \in DOMAIN tasks \ {t} : tasks'[u] = tasks[u]
                /\ calls' = calls
                /\ sessions' = sessions]_vars
    /\ [](\A call \in BagToSet(calls) :
             (call.op = "send_message_to_task"
                /\ tasks[call.task_id].state = CANCELED)
             => \A outcome \in RuntimeOutcomes :
                   ENABLED a2a_send_message_to_task_resume(call, outcome))

\* C26 witness: a task holding a reply has been canceled while an exchange was
\* in flight on it, next to another task that had completed.
C26_Witness ==
    /\ resp.op = "cancel_task" /\ resp.code = 200
    /\ Len(resp.body.messages) >= 3
    /\ tasks[resp.body.id].state = CANCELED
    /\ CallsOf(calls, resp.body.id) # {}
    /\ \E u \in DOMAIN tasks \ {resp.body.id} : tasks[u].state = COMPLETED

\* C27: send_message_to_task checks before it writes, in this order: an unknown
\* task id is answered 404, then a task canceled or failed is answered 400
\* (whatever the agent name), then an agent name without an instance is
\* answered 404; in each rejection the task store is as before, no message is
\* appended, no state becomes working and no exchange starts.
C27_SendChecksInOrder ==
    [][\A t \in TaskIdInputs, n \in Names, m \in UserMessages, fo \in TaskFactoryInputs :
          (resp'.op = "send_message_to_task" /\ resp'.name = n
             /\ a2a_send_message_to_task(n, t, m, fo))
          => IF t \notin DOMAIN tasks
             THEN /\ resp' = Response("send_message_to_task", n, 404, TaskNotFoundText(t))
                  /\ tasks' = tasks /\ calls' = calls
             ELSE IF tasks[t].state \in {CANCELED, TASK_FAILED}
             THEN /\ \E detail \in InvalidStateText(tasks[t].state) :
                        resp' = Response("send_message_to_task", n, 400, detail)
                  /\ tasks' = tasks /\ calls' = calls
             ELSE IF get_agent_instance(RegistryState, "a2a", n, fo).ret = NoneObj
             THEN /\ resp' = Response("send_message_to_task", n, 404, NotDeployedText(n))
                  /\ tasks' = tasks /\ calls' = calls
             ELSE /\ tasks'[t].state = WORKING
                  /\ Len(tasks'[t].messages) = Len(tasks[t].messages) + 1]_vars

\* C27 witness: a message for a canceled task sent under an agent name that has
\* no instance has been answered 400, the task keeping its completed exchange.
C27_Witness ==
    /\ resp.op = "send_message_to_task" /\ resp.code = 400 /\ resp.name = "b"
    /\ get_agent_instance(RegistryState, "a2a", "b", "ok").ret = NoneObj
    /\ \E t \in DOMAIN tasks :
          /\ tasks[t].state = CANCELED
          /\ resp.body \in InvalidStateText(CANCELED)
          /\ Len(tasks[t].messages) = 2
    /\ \E u \in DOMAIN tasks : tasks[u].state = COMPLETED

\* C28: a deploy whose factory call succeeds wires exactly the instances cached
\* at that moment for the declared sub-agent names, in declaration order, leaves
\* the other names out and ends ACTIVE with status 200; a deploy of another
\* name leaves an instance that is already built as it is.
C28_SubAgentsFromCache ==
    [][\A n \in FamilyNames :
          (resp'.op = "deploy_agent" /\ resp'.name = n /\ resp'.code = 200
             /\ api_deploy_agent(n, "ok"))
          => LET decl == get_definition(RegistryState, "api", n).sub_agents
                 subs == agents'["api"][n].sub_agents
                 cached == {i \in 1..Len(decl) : decl[i] \in DOMAIN agents["api"]}
             IN  /\ resp'.body.status = ACTIVE
                 /\ Len(subs) = Cardinality(cached)
                 /\ \A i \in cached :
                       subs[Cardinality({j \in cached : j <= i})]
                         = agents["api"][decl[i]]
                 /\ \A m \in DOMAIN agents["api"] \ {n} :
                       /\ m \in DOMAIN agents'["api"]
                       /\ agents'["api"][m] = agents["api"][m]]_vars

\* C28 witness: the parent was deployed while only "b" was cached, and "a" has
\* been deployed since; the parent instance still holds "b" alone.
C28_Witness ==
    /\ resp.op = "deploy_agent" /\ resp.name = "a" /\ resp.code = 200
    /\ {"a", "b", "p"} \subseteq DOMAIN agents["api"]
    /\ StoredStatus(RegistryState, "p") = ACTIVE
    /\ Len(agents["api"]["p"].sub_agents) = 1
    /\ agents["api"]["p"].sub_agents[1].name = "b"

\* The positions of the declared tools whose name is in the tool registry.
ResolvablePositions(tls) == {i \in 1..Len(tls) : tls[i].name \in ToolRegistry}

\* The tools are those registered under the resolvable names, in the order the
\* definition declares them.
IsResolvableSubsequence(built, tls) ==
    /\ Len(built) = Cardinality(ResolvablePositions(tls))
    /\ \A i \in ResolvablePositions(tls) :
          built[Cardinality({j \in ResolvablePositions(tls) : j <= i})]
            = get_tool(tls[i].name)

\* C29: the factory gives an agent, for every tool list, the tools registered
\* under the declared names that resolve, in declaration order, and drops the
\* others; a registration that deploys a definition with an unregistered tool
\* name ends ACTIVE with the instance holding the tools that resolve.
C29_ToolsResolvableSubsequence ==
    /\ [](resp.op = "factory_create_agent"
            => IsResolvableSubsequence(resp.body.agent.tools, resp.body.definition.tools))
    /\ [][\A d \in DefinitionInputs :
             (resp'.op = "create_agent" /\ resp'.name = d.name
                /\ api_create_agent(d, TRUE, "ok"))
             => /\ resp'.code = 201
                /\ resp'.body.status = ACTIVE
                /\ IsResolvableSubsequence(agents'["api"][d.name].tools, d.tools)]_vars

\* C29 witness: the factory was given a registered, an unregistered and another
\* registered tool name and built an agent with the two registered tools.
C29_Witness ==
    /\ resp.op = "factory_create_agent"
    /\ Len(resp.body.definition.tools) = 3
    /\ resp.body.definition.tools[1].name = "get_weather"
    /\ resp.body.definition.tools[2].name = "call_agent"
    /\ resp.body.definition.tools[3].name = "add"
    /\ resp.body.agent.tools = <<"get_weather", "add">>
    /\ "a" \in DOMAIN agents["api"]
    /\ agents["api"]["a"].tools = <<"add">>

\* C30: registering a name the registry already holds replaces the stored
\* definition, gives the record an id no record had before and leaves the list
\* total as it was; without deploy the request is answered 201 with the record
\* DRAFT, whatever its status was.
C30_RegisterIsUpsert ==
    [][\A d \in DefinitionInputs, deploy \in BOOLEAN, fo \in FactoryOutcomes :
          (resp'.op = "create_agent" /\ resp'.name = d.name
             /\ Registered(RegistryState, d.name)
             /\ api_create_agent(d, deploy, fo))
          => /\ get_definition(RegistryStateNext, "api", d.name) = d
             /\ \A m \in Names :
                   Registered(RegistryState, m)
                   => StoredId(RegistryStateNext, d.name) # StoredId(RegistryState, m)
             /\ list_agents(RegistryStateNext, "api", 1, 10).ret.total
                  = list_agents(RegistryState, "api", 1, 10).ret.total
             /\ (~deploy => /\ resp'.code = 201
                            /\ resp'.body.status = DRAFT
                            /\ resp'.body.description = d.description
                            /\ resp'.body.id = StoredId(RegistryStateNext, d.name)
                            /\ StoredStatus(RegistryStateNext, d.name) = DRAFT)]_vars

\* C30 witness: "a", registered first and deployed, has been registered again
\* with another definition after "b": it is DRAFT under the third id, holds the
\* new definition, and the registry still lists two records.
C30_Witness ==
    /\ resp.op = "create_agent" /\ resp.code = 201 /\ resp.name = "a"
    /\ resp.body.status = DRAFT /\ resp.body.id = 3
    /\ resp.body.description = "second"
    /\ Registered(RegistryState, "b") /\ StoredId(RegistryState, "b") = 2
    /\ get_definition(RegistryState, "api", "a").description = "second"
    /\ list_agents(RegistryState, "api", 1, 10).ret.total = 2
    /\ "a" \in DOMAIN agents["api"]
    /\ agents["api"]["a"].description = "first"

\* C31: a registration that deploys at once leaves the registry as a
\* registration without deploy followed by a deploy of the name does: ACTIVE
\* with the instance cached when the factory call succeeds; when it raises, the
\* record stays registered with status FAILED and the request is answered with
\* the error.
C31_RegisterThenDeploy ==
    [][\A d \in DefinitionInputs, fo \in FactoryOutcomes :
          (resp'.op = "create_agent" /\ resp'.name = d.name
             /\ api_create_agent(d, TRUE, fo))
          => LET registered == register_agent(RegistryState, "api", d, FALSE, fo)
                 deployed == deploy_agent(registered.S, "api", d.name, fo)
             IN  /\ registered.raised = None
                 /\ RegistryStateNext = deployed.S
                 /\ Registered(RegistryStateNext, d.name)
                 /\ get_definition(RegistryStateNext, "api", d.name) = d
                 /\ IF fo = "ok"
                    THEN /\ resp'.code = 201
                         /\ resp'.body = deployed.ret
                         /\ StoredStatus(RegistryStateNext, d.name) = ACTIVE
                         /\ d.name \in DOMAIN agents'["api"]
                         /\ agents'["api"][d.name].description = d.description
                    ELSE /\ resp'.code \in {400, 500}
                         /\ resp'.body = deployed.msg
                         /\ StoredStatus(RegistryStateNext, d.name) = FAILED]_vars

\* C31 witness: a registration of "b" that deploys at once has failed in the
\* factory and was answered with the error; "b" is registered and FAILED, with
\* no instance, next to "a" which is ACTIVE.
C31_Witness ==
    /\ resp.op = "create_agent" /\ resp.name = "b" /\ resp.code \in {400, 500}
    /\ Registered(RegistryState, "b")
    /\ StoredStatus(RegistryState, "b") = FAILED
    /\ "b" \notin DOMAIN agents["api"]
    /\ Registered(RegistryState, "a") /\ StoredStatus(RegistryState, "a") = ACTIVE

\* C32: between requests every registered name has status DRAFT, ACTIVE or
\* FAILED: INACTIVE is never written, and DEPLOYING is only the value deploy
\* writes first and has replaced by ACTIVE or FAILED when it returns or raises.
C32_StatusValues ==
    /\ [](\A n \in Names :
             Registered(RegistryState, n)
             => StoredStatus(RegistryState, n) \in {DRAFT, ACTIVE, FAILED})
    /\ [][\A n \in Names, fo \in FactoryOutcomes :
             (resp'.op = "deploy_agent" /\ resp'.name = n
                /\ Registered(RegistryState, n) /\ api_deploy_agent(n, fo))
             => /\ StoredStatus(mark_deploying(RegistryState, "api", n), n) = DEPLOYING
                /\ StoredStatus(RegistryStateNext, n)
                     = IF fo = "ok" THEN ACTIVE ELSE FAILED]_vars

\* C32 witness: a deploy of "a" has succeeded after a deploy of "b" had failed;
\* "a" is ACTIVE and "b" is FAILED.
C32_Witness ==
    /\ resp.op = "deploy_agent" /\ resp.name = "a" /\ resp.code = 200
    /\ resp.body.status = ACTIVE
    /\ Registered(RegistryState, "b") /\ StoredStatus(RegistryState, "b") = FAILED
    /\ StoredStatus(RegistryState, "a") = ACTIVE

\* C33 (as claimed): an entry of an instance cache is written only by a deploy
\* that succeeds or by the lazy reconstruction of a stored ACTIVE agent, and
\* removed only by a delete.  A new registration of a deployed name and a failed
\* redeploy leave the entry as it is and get_agent_instance still returns that
\* instance; so, while the name is DRAFT or FAILED with the instance of its last
\* successful deploy cached, an invoke on it starts its exchange with that
\* instance and answers 200 with the reply when the exchange ends without an
\* exception, and a create_task on it is accepted and starts its exchange.
C33_CacheKeptAndServed ==
    [][/\ \A r \in Registries, n \in Names :
             /\ (n \in DOMAIN agents[r] /\ n \notin DOMAIN agents'[r])
                  => (resp'.op = "delete_agent" /\ resp'.name = n)
             /\ (/\ n \in DOMAIN agents'[r]
                 /\ (n \in DOMAIN agents[r] => agents'[r][n] # agents[r][n]))
                  => \/ /\ resp'.op \in {"deploy_agent", "create_agent"}
                        /\ resp'.name = n /\ resp'.code \in {200, 201}
                        /\ StoredStatus(RegistryStateNext, n) = ACTIVE
                     \/ /\ storageOn /\ n \notin DOMAIN agents[r]
                        /\ Registered(RegistryState, n)
                        /\ StoredStatus(RegistryState, n) = ACTIVE
                        /\ agents'[r][n]
                             = create_agent(to_definition(storage_get_agent(container, n)),
                                            <<>>)
       /\ \A n \in Names :
             (n \in DOMAIN agents["api"] /\ resp'.name = n
                /\ \/ /\ resp'.op = "create_agent"
                      /\ \E d \in DefinitionInputs, deploy \in BOOLEAN, fo \in FactoryOutcomes :
                            /\ d.name = n /\ (~deploy \/ fo # "ok")
                            /\ api_create_agent(d, deploy, fo)
                   \/ /\ resp'.op = "deploy_agent"
                      /\ \E fo \in FactoryOutcomes \ {"ok"} : api_deploy_agent(n, fo))
             => /\ n \in DOMAIN agents'["api"]
                /\ StoredStatus(RegistryStateNext, n) \in {DRAFT, FAILED}
                /\ agents'["api"][n] = agents["api"][n]
                /\ \A fo \in FactoryOutcomes :
                      get_agent_instance(RegistryStateNext, "api", n, fo).ret
                        = agents["api"][n]
       /\ \A n \in Names, fo \in FactoryOutcomes :
             (n \in DOMAIN agents["api"] /\ Registered(RegistryState, n)
                /\ StoredStatus(RegistryState, n) \in {DRAFT, FAILED}
                /\ api_invoke_agent(n, None, fo))
             => \E call \in BagToSet(calls') :
                   /\ call.op = "invoke_agent" /\ call.agent = agents["api"][n]
                   /\ ~BagIn(call, calls) \/ calls'[call] > calls[call]
       /\ \A started \in BagToSet(calls), outcome \in RuntimeOutcomes :
             (started.op = "invoke_agent" /\ ~outcome.raised
                /\ started.agent_name \in DOMAIN agents["api"]
                /\ Registered(RegistryState, started.agent_name)
                /\ StoredStatus(RegistryState, started.agent_name) \in {DRAFT, FAILED}
                /\ resp'.op = "invoke_agent"
                /\ api_invoke_agent_resume(started, outcome))
             => /\ resp'.code = 200
                /\ resp'.body.response = AggregateEvents(outcome.events)
       /\ \A n \in Names, fo \in FactoryOutcomes :
             (n \in DOMAIN agents["api"] /\ Registered(RegistryState, n)
                /\ StoredStatus(RegistryState, n) \in {DRAFT, FAILED}
                /\ a2a_create_task(n, HiMessage, None, fo, "replace"))
             => \E created \in BagToSet(calls') :
                   /\ created.op = "create_task" /\ created.agent_name = n
                   /\ ~BagIn(created, calls) \/ calls'[created] > calls[created]]_vars

\* C34: in an in-memory registry, whatever the order in which register, deploy
\* and delete requests are served, the names with a definition are the names
\* with metadata, every cached instance belongs to a name with a definition, and
\* every name with status ACTIVE has a cached instance.
C34_InMemoryMapsAgree ==
    ~storageOn
    => \A r \in Registries :
          LET defined == {d.name : d \in SeqElements(definitions[r])}
          IN  /\ defined = DOMAIN metadata[r]
              /\ DOMAIN agents[r] \subseteq defined
              /\ \A n \in DOMAIN metadata[r] :
                    metadata[r][n].status = ACTIVE => n \in DOMAIN agents[r]

\* C34 witness: in an in-memory registry "b" has just been deleted while "a",
\* registered again after a deploy, is DRAFT with its instance still cached.
C34_Witness ==
    /\ ~storageOn
    /\ resp.op = "delete_agent" /\ resp.name = "b" /\ resp.code = 204
    /\ {d.name : d \in SeqElements(definitions["api"])} = {"a"}
    /\ DOMAIN metadata["api"] = {"a"}
    /\ metadata["api"]["a"].status = DRAFT
    /\ DOMAIN agents["api"] = {"a"}

\* C35: an instance that get_agent_instance rebuilds from storage for a
\* create_task has the name, description, instruction and resolvable tools of
\* the stored definition and no sub-agent, also when the definition names
\* sub-agents that are cached; the rebuild leaves the container, and with it
\* the stored status of the record, as it was.
C35_LazyInstanceWithoutSubAgents ==
    [][\A n \in Names, fo \in FactoryOutcomes :
          (n \notin DOMAIN agents["a2a"] /\ n \in DOMAIN agents'["a2a"]
             /\ a2a_create_task(n, HiMessage, None, fo, "replace"))
          => LET stored == to_definition(storage_get_agent(container, n))
                 built == agents'["a2a"][n]
             IN  /\ storageOn
                 /\ built.sub_agents = <<>>
                 /\ built.name = stored.name
                 /\ built.description = stored.description
                 /\ built.instruction = stored.system_prompt
                 /\ IsResolvableSubsequence(built.tools, stored.tools)
                 /\ container' = container
                 /\ StoredStatus(RegistryStateNext, n) = ACTIVE
                 /\ definitions' = definitions /\ metadata' = metadata
                 /\ agents'["api"] = agents["api"]]_vars

\* C35 witness: the A2A registry cached "b" for the first task and rebuilt
\* "a", whose stored definition names "b", for the second; the rebuilt "a" has
\* no sub-agent while the instance the deploy built holds "b".
C35_Witness ==
    /\ storageOn
    /\ {"a", "b"} \subseteq DOMAIN agents["a2a"]
    /\ get_definition(RegistryState, "a2a", "a").sub_agents = <<"b">>
    /\ agents["a2a"]["a"].sub_agents = <<>>
    /\ "a" \in DOMAIN agents["api"]
    /\ Len(agents["api"]["a"].sub_agents) = 1
    /\ \E c1, c2 \in BagToSet(calls) :
          /\ c1.op = "create_task" /\ c1.agent_name = "b" /\ c1.task_id = TaskId(1)
          /\ c2.op = "create_task" /\ c2.agent_name = "a" /\ c2.task_id = TaskId(2)
          /\ c2.agent = agents["a2a"]["a"]

\* C36: the message list of a task only grows at its end: in every step, with
\* sends and cancels on the task in any order, the list a stored task had is an
\* initial part of the list it has afterwards, and the list of a task being
\* created is an initial part of the list it is stored with.
C36_MessagesAppendOnly ==
    [][LET IsPrefix(s, t) == Len(s) <= Len(t) /\ \A i \in 1..Len(s) : t[i] = s[i]
       IN  /\ \A t \in DOMAIN tasks :
                 /\ t \in DOMAIN tasks'
                 /\ IsPrefix(tasks[t].messages, tasks'[t].messages)
           /\ \A call \in BagToSet(calls) :
                 (call.op = "create_task"
                    /\ call.task_id \in DOMAIN tasks' \ DOMAIN tasks)
                 => IsPrefix(call.task.messages,
                             tasks'[call.task_id].messages)]_vars

\* C36 witness: a task holds two whole exchanges, user and agent messages in
\* turn, was then canceled, and an exchange is still in flight on the other
\* task.
C36_Witness ==
    \E t \in DOMAIN tasks :
       /\ Len(tasks[t].messages) = 4
       /\ tasks[t].messages[1].role = USER /\ tasks[t].messages[2].role = AGENT
       /\ tasks[t].messages[3].role = USER /\ tasks[t].messages[4].role = AGENT
       /\ tasks[t].state = CANCELED
       /\ \E call \in BagToSet(calls) :
             call.op = "send_message_to_task" /\ call.task_id # t

\* C37: a task that is in the task store stays in it under its id with the
\* session id it was created with, which is never empty; a get_task of its id
\* is answered 200 with that task whatever has been deleted or deployed since.
C37_TaskStoreOnlyGrows ==
    /\ [](\A t \in DOMAIN tasks :
             tasks[t].id = t /\ tasks[t].session_id \notin {None, ""})
    /\ [][/\ \A t \in DOMAIN tasks :
                /\ t \in DOMAIN tasks'
                /\ tasks'[t].id = tasks[t].id
                /\ tasks'[t].session_id = tasks[t].session_id
          /\ \A n \in Names, t \in DOMAIN tasks :
                (resp'.op = "get_task" /\ resp'.name = n /\ a2a_get_task(n, t))
                => /\ resp'.code = 200
                   /\ resp'.body = tasks[t]
                   /\ resp'.body.id = t]_vars

\* C37 witness: the agent has been deleted and its name is not registered; a
\* get_task of the first task, created with an empty session id in the request
\* and canceled since, is answered with the task and the session id drawn for
\* it.
C37_Witness ==
    /\ ~Registered(RegistryState, "a")
    /\ resp.op = "get_task" /\ resp.code = 200
    /\ resp.body.id = TaskId(1)
    /\ resp.body.session_id = FreshSessionId(1)
    /\ resp.body.state = CANCELED
    /\ TaskId(2) \in DOMAIN tasks /\ tasks[TaskId(2)].session_id = "s1"

\* C38: the result of get_task and of cancel_task depends on the task id alone,
\* not on the agent name of the request, registered or not; an accepted
\* send_message_to_task starts its exchange on the task with the instance of the
\* agent named in the request, also when the task was created for another
\* agent.
C38_KeyedByTaskId ==
    [][\A n \in KeyedNames, t \in TaskIdInputs :
          /\ (resp'.op = "get_task" /\ resp'.name = n /\ a2a_get_task(n, t))
             => IF t \in DOMAIN tasks
                THEN resp'.code = 200 /\ resp'.body = tasks[t]
                ELSE resp'.code = 404 /\ resp'.body = TaskNotFoundText(t)
          /\ (resp'.op = "cancel_task" /\ resp'.name = n /\ a2a_cancel_task(n, t))
             => IF t \in DOMAIN tasks
                THEN /\ resp'.code = 200
                     /\ resp'.body = [tasks[t] EXCEPT !.state = CANCELED]
                     /\ tasks' = [tasks EXCEPT ![t] = resp'.body]
                ELSE /\ resp'.code = 404 /\ resp'.body = TaskNotFoundText(t)
                     /\ tasks' = tasks
          /\ (calls' # calls /\ a2a_send_message_to_task(n, t, HiMessage, "ok"))
             => \E call \in BagToSet(calls') :
                   /\ ~BagIn(call, calls) \/ calls'[call] > calls[call]
                   /\ call.op = "send_message_to_task" /\ call.task_id = t
                   /\ call.agent.name = n
                   /\ call.agent = get_agent_instance(RegistryState, "a2a", n, "ok").ret]_vars

\* C38 witness: a task created for "a" is being continued with the instance of
\* "b", and a get_task under a name that was never registered has been
\* answered with the other task.
C38_Witness ==
    /\ resp.op = "get_task" /\ resp.name = "ghost" /\ resp.code = 200
    /\ \E call \in BagToSet(calls) :
          /\ call.op = "send_message_to_task" /\ call.agent.name = "b"
          /\ call.agent_name = "b"
          /\ call.task_id \in DOMAIN tasks
          /\ call.task_id # resp.body.id
          /\ tasks[call.task_id].state = WORKING

\* C39: a task enters the task store when the exchange of its create_task has
\* ended: while that exchange is in flight the id is not in the store, and a
\* get_task or cancel_task of it is answered 404 and changes nothing.  A stored
\* task is never submitted or input-required, and it is working only while a
\* send_message_to_task exchange on it is in flight.
C39_StoredAfterExchange ==
    /\ [](\A creating \in BagToSet(calls) :
             creating.op = "create_task" => creating.task_id \notin DOMAIN tasks)
    /\ [](\A t \in DOMAIN tasks :
             /\ tasks[t].state \notin {SUBMITTED, INPUT_REQUIRED}
             /\ tasks[t].state = WORKING
                  => \E call \in CallsOf(calls, t) : call.op = "send_message_to_task")
    /\ [][\A call \in BagToSet(calls), n \in Names :
             (call.op = "create_task" /\ resp'.name = n
                /\ \/ resp'.op = "get_task" /\ a2a_get_task(n, call.task_id)
                   \/ resp'.op = "cancel_task" /\ a2a_cancel_task(n, call.task_id))
             => /\ resp'.code = 404
                /\ resp'.body = TaskNotFoundText(call.task_id)
                /\ tasks' = tasks /\ calls' = calls]_vars

\* C39 witness: while the exchange that creates the second task is in flight a
\* cancel of its id has been answered 404; the first task is working with a
\* send_message_to_task exchange in flight on it.
C39_Witness ==
    /\ resp = Response("cancel_task", "a", 404, TaskNotFoundText(TaskId(2)))
    /\ \E call \in BagToSet(calls) : call.op = "create_task" /\ call.task_id = TaskId(2)
    /\ TaskId(2) \notin DOMAIN tasks
    /\ TaskId(1) \in DOMAIN tasks /\ tasks[TaskId(1)].state = WORKING
    /\ \E call \in CallsOf(calls, TaskId(1)) : call.op = "send_message_to_task"

====
